---- MODULE Spec2Model ----
(***************************************************************************)
(* A model of the tusk web server: the route table (Route::new,            *)
(* Server::register, Server::module, RouteStorage::add / prep / handler),  *)
(* request-path framing, the accept loop of Server::start with its write   *)
(* loop, and the conversion of a RouteError into a Response.               *)
(*                                                                         *)
(* Strings are sequences of one-character strings; the byte order Rust's   *)
(* String::cmp uses is given by CharCode.                                  *)
(***************************************************************************)
EXTENDS Integers, Sequences, FiniteSets, TLC

VARIABLES
    routes,      \* RouteStorage: one Vec<Route> per bucket
    prepped,     \* TRUE once Server::start has run RouteStorage::prep
    lookup,      \* the last route lookup: request, framed path, result
    cors_origin, \* Server.cors_origin
    cors_headers,\* Server.cors_headers
    postfix,     \* Server.postfix
    pc,          \* where Server::start stands
    backlog,     \* connections waiting in the listener
    conn,        \* every client connection: new, queued, accepted, closed
    stream,      \* whether each client's request has arrived on its connection
    cur,         \* the connection the loop body is serving (0: none)
    req,         \* req_parsed
    matched,     \* matched_path
    response,    \* the response being written
    bytes,       \* the whole wire buffer of the response
    write_bytes, \* the unsent remainder
    sent,        \* the bytes the socket accepted, in order
    wresult,     \* how the write phase ended
    log,         \* the phases the served connection went through
    error,       \* a RouteError
    converted,   \* the Response RouteError::to_response made of it
    built,       \* a Response under construction by the application
    calls,       \* the constructor and builder calls that made it
    form,        \* the text handed to UrlEncoded::from_string
    values,      \* UrlEncoded.values
    got,         \* the last UrlEncoded::get: key and result
    json,        \* the text handed to JsonObject::from_string or JsonArray::from_string
    document,    \* the JsonObject or JsonArray it returned, or the panic
    original,    \* the value handed to to_json
    retrieved,   \* what an accessor returned for the key or index asked
    wire,        \* the bytes a client sent on one connection
    framed       \* what create_request_object made of them

routeVars == <<routes, prepped, lookup>>
configVars == <<cors_origin, cors_headers, postfix>>
clientVars == <<backlog, conn, stream>>
servedVars == <<cur, req, matched, response, bytes, write_bytes, sent, wresult, log>>
srvVars == <<configVars, pc, clientVars, servedVars>>
errVars == <<error, converted>>
respVars == <<built, calls>>
formVars == <<form, values, got>>
jsonVars == <<json, document, original, retrieved>>
frameVars == <<wire, framed>>
codecVars == <<respVars, formVars, jsonVars, frameVars>>
vars == <<routeVars, srvVars, errVars, codecVars>>

(***************************************************************************)
(* Bounds of the model.                                                    *)
(***************************************************************************)
MaxPathLen == 2      \* length of a path handed to Route::new or sent as a target
MaxRoutes == 2       \* routes registered before start
MaxModule == 1       \* routes registered before start where modules are used

(***************************************************************************)
(* Strings.                                                                *)
(***************************************************************************)
PathAlphabet == {"/", "a"}

CharCode(c) ==
    CASE c = "/" -> 47
      [] c = "a" -> 97
      [] OTHER -> 0

RECURSIVE StringsUpTo(_, _)
StringsUpTo(alphabet, n) ==
    IF n = 0 THEN {<<>>}
    ELSE LET shorter == StringsUpTo(alphabet, n - 1)
         IN  shorter \cup {Append(s, c) : s \in shorter, c \in alphabet}

Range(s) == {s[i] : i \in 1..Len(s)}

IsPrefix(s, t) == Len(s) <= Len(t) /\ s = SubSeq(t, 1, Len(s))

StartsWith(s, c) == Len(s) > 0 /\ s[1] = c
EndsWith(s, c) == Len(s) > 0 /\ s[Len(s)] = c

\* str::cmp: lexicographic on bytes; -1 is Less, 0 Equal, 1 Greater
RECURSIVE StrCmp(_, _)
StrCmp(a, b) ==
    IF Len(a) = 0 /\ Len(b) = 0 THEN 0
    ELSE IF Len(a) = 0 THEN -1
    ELSE IF Len(b) = 0 THEN 1
    ELSE IF CharCode(a[1]) < CharCode(b[1]) THEN -1
    ELSE IF CharCode(a[1]) > CharCode(b[1]) THEN 1
    ELSE StrCmp(Tail(a), Tail(b))

(***************************************************************************)
(* Methods and routes.                                                     *)
(***************************************************************************)
RequestType == {"Get", "Post", "Put", "Patch", "Delete", "Any", "Options"}
Buckets == {"Get", "Post", "Put", "Patch", "Delete", "Any"}
Handlers == {"h1", "h2"}

\* RequestType::type_for_method
type_for_method(method) ==
    CASE method = "GET" -> "Get"
      [] method = "POST" -> "Post"
      [] method = "PUT" -> "Put"
      [] method = "PATCH" -> "Patch"
      [] method = "DELETE" -> "Delete"
      [] method = "OPTIONS" -> "Options"
      [] OTHER -> "Any"

is_any(request_type) == request_type = "Any"

\* the match of RouteStorage::handler and RouteStorage::add: the bucket of a method
BucketOf(request_type) ==
    IF request_type \in {"Get", "Post", "Put", "Patch", "Delete"}
    THEN request_type
    ELSE "Any"

\* Route::new: prepend '/' when missing, then strip one trailing '/'
RouteNewPath(path) ==
    LET s1 == IF ~StartsWith(path, "/") THEN <<"/">> \o path ELSE path
    IN  IF EndsWith(s1, "/") THEN SubSeq(s1, 1, Len(s1) - 1) ELSE s1

RouteNew(path, request_type, handler) ==
    [path |-> RouteNewPath(path), request_type |-> request_type, handler |-> handler]

\* Server::create_request_object: the path of the framed request
FramePath(wo_query_sect) ==
    IF EndsWith(wo_query_sect, "/")
    THEN SubSeq(wo_query_sect, 1, Len(wo_query_sect) - 1)
    ELSE wo_query_sect

\* Server::module: the prefix applied to every route of the module
AppliedPrefix(prefix) ==
    LET p1 == IF EndsWith(prefix, "/") THEN SubSeq(prefix, 1, Len(prefix)) ELSE prefix
    IN  IF ~StartsWith(p1, "/") THEN <<"/">> \o p1 ELSE p1

\* RouteStorage::new
EmptyStorage == [b \in Buckets |-> <<>>]

\* RouteStorage::add
StorageAdd(storage, route) ==
    [storage EXCEPT ![BucketOf(route.request_type)] = Append(@, route)]

RECURSIVE StorageAddAll(_, _)
StorageAddAll(storage, rs) ==
    IF rs = <<>> THEN storage
    ELSE StorageAddAll(StorageAdd(storage, Head(rs)), Tail(rs))

\* Vec::sort_by(|a, b| a.path.cmp(&b.path)): a stable sort
RECURSIVE InsertByPath(_, _)
InsertByPath(sorted, r) ==
    IF sorted = <<>> THEN <<r>>
    ELSE IF StrCmp(sorted[Len(sorted)].path, r.path) <= 0 THEN Append(sorted, r)
    ELSE Append(InsertByPath(SubSeq(sorted, 1, Len(sorted) - 1), r), sorted[Len(sorted)])

RECURSIVE SortByPath(_)
SortByPath(rs) ==
    IF rs = <<>> THEN <<>>
    ELSE InsertByPath(SortByPath(SubSeq(rs, 1, Len(rs) - 1)), rs[Len(rs)])

\* the buckets RouteStorage::prep sorts
PreppedBuckets == {"Get", "Post", "Put", "Delete", "Any"}

\* RouteStorage::prep
StoragePrep(storage) ==
    [b \in Buckets |-> IF b \in PreppedBuckets THEN SortByPath(storage[b]) ELSE storage[b]]

\* slice::binary_search_by(|a| a.path.cmp(path)): 0 is a miss, else the index
RECURSIVE BinarySearch(_, _, _, _)
BinarySearch(rs, path, left, right) ==
    IF left >= right THEN 0
    ELSE LET mid == left + ((right - left) \div 2)
             c == StrCmp(rs[mid + 1].path, path)
         IN  IF c < 0 THEN BinarySearch(rs, path, mid + 1, right)
             ELSE IF c > 0 THEN BinarySearch(rs, path, left, mid)
             ELSE mid + 1

NotFound == [path |-> <<>>, request_type |-> "None", handler |-> "none"]

\* RouteStorage::handler
StorageHandler(storage, request_type, path) ==
    LET handler_cat == storage[BucketOf(request_type)]
        handler_ix == BinarySearch(handler_cat, path, 0, Len(handler_cat))
        any_ix == BinarySearch(storage["Any"], path, 0, Len(storage["Any"]))
    IN  IF handler_ix # 0 THEN handler_cat[handler_ix]
        ELSE IF ~is_any(request_type)
        THEN (IF any_ix # 0 THEN storage["Any"][any_ix] ELSE NotFound)
        ELSE NotFound

(***************************************************************************)
(* Responses.  A text is a sequence of tokens; a token is one character or *)
(* a run of characters the code appends as a whole.                        *)
(***************************************************************************)
Statuses ==
    {"Ok", "Created", "BadRequest", "Forbidden", "NotFound", "Conflict",
     "ImATeapot", "InternalServerError"}

\* ResponseStatusCode::code
code(status) ==
    CASE status = "Ok" -> 200
      [] status = "Created" -> 201
      [] status = "BadRequest" -> 400
      [] status = "Forbidden" -> 403
      [] status = "NotFound" -> 404
      [] status = "Conflict" -> 409
      [] status = "ImATeapot" -> 418
      [] status = "InternalServerError" -> 500

\* ResponseStatusCode::http_string
http_string(status) ==
    CASE status = "Ok" -> "200 OK"
      [] status = "Created" -> "201 Created"
      [] status = "BadRequest" -> "400 Bad Request"
      [] status = "Forbidden" -> "403 Forbidden"
      [] status = "NotFound" -> "404 Not Found"
      [] status = "Conflict" -> "409 Conflict"
      [] status = "ImATeapot" -> "418 I'm a teapot"
      [] status = "InternalServerError" -> "500 Internal Server Error"

\* the number of bytes of a token
TokLen(t) ==
    CASE t = "{\n" -> 2
      [] t = "\t\"code\":\"" -> 9
      [] t = "\",\n" -> 3
      [] t = "\t\"message\":\"" -> 12
      [] t = "\n}" -> 2
      [] t = "404 not found" -> 13
      [] t = "Cannot connect to database." -> 27
      [] t \in {ToString(code(st)) : st \in Statuses} -> 3
      [] OTHER -> 1

\* Vec<u8>::len
RECURSIVE ByteLen(_)
ByteLen(data) == IF data = <<>> THEN 0 ELSE TokLen(Head(data)) + ByteLen(Tail(data))

\* the time Utc::now() reads, as Response::data formats it
DateNow == "Mon, 2 Nov 2026 03:00:00 GMT"

\* Response::header: BTreeMap::insert
Header(resp, key, value) ==
    [resp EXCEPT !.headers =
        [k \in DOMAIN resp.headers \cup {key} |-> IF k = key THEN value ELSE resp.headers[k]]]

\* Response::status
Status(resp, status) == [resp EXCEPT !.status = status]

\* Response::data
ResponseData(data) ==
    Header(Header(Header(Header(
        [data |-> data, status |-> "Ok", headers |-> <<>>],
        "Content-Type", "text/html"),
        "Content-Length", ToString(ByteLen(data))),
        "Date", DateNow),
        "Connection", "close")

\* a string response built on Response::new(): no automatic headers
ResponseStringBare(s) ==
    Header([data |-> s, status |-> "Ok", headers |-> <<>>], "Content-Type", "text/plain")

\* Response::string
ResponseString(s) == Header(ResponseData(s), "Content-Type", "text/plain")

\* Response::json, of the text to_json returned
ResponseJson(text) ==
    Header(ResponseData(text), "Content-Type", "application/json; charset=utf-8")

\* Response::html
ResponseHtml(s) == ResponseData(s)

AllowMethods == "POST, PATCH, GET, OPTIONS, DELETE, PUT"

\* apply_cors with entry().or_insert(): what a header already set keeps
ApplyCorsKeep(resp, origin, headers) ==
    LET keep(r, k, v) == IF k \in DOMAIN r.headers THEN r ELSE Header(r, k, v)
    IN  keep(keep(keep(resp,
            "Access-Control-Allow-Origin", origin),
            "Access-Control-Allow-Headers", headers),
            "Access-Control-Allow-Methods", AllowMethods)

\* Response::apply_cors
ApplyCors(resp, origin, headers) ==
    Header(Header(Header(resp,
        "Access-Control-Allow-Origin", origin),
        "Access-Control-Allow-Headers", headers),
        "Access-Control-Allow-Methods", AllowMethods)

\* the keys of the model's headers in the order BTreeMap iterates them
HeaderKeyOrder ==
    <<"Access-Control-Allow-Headers", "Access-Control-Allow-Methods",
      "Access-Control-Allow-Origin", "Connection", "Content-Length",
      "Content-Type", "Date", "X-Post">>

HeaderLine(key, value) == key \o ": " \o value

\* the closure of Response::get_header_data joined with "\n"
RECURSIVE JoinedHeaders(_, _, _)
JoinedHeaders(headers, i, first) ==
    IF i > Len(HeaderKeyOrder) THEN <<>>
    ELSE IF HeaderKeyOrder[i] \in DOMAIN headers
    THEN (IF first THEN <<>> ELSE <<"\n">>)
         \o <<HeaderLine(HeaderKeyOrder[i], headers[HeaderKeyOrder[i]])>>
         \o JoinedHeaders(headers, i + 1, FALSE)
    ELSE JoinedHeaders(headers, i + 1, first)

\* Response::get_header_data
GetHeaderData(resp) ==
    <<"HTTP/1.1 " \o http_string(resp.status)>>
    \o (IF DOMAIN resp.headers # {}
        THEN <<"\r\n">> \o JoinedHeaders(resp.headers, 1, TRUE)
        ELSE <<>>)
    \o <<"\r\n\r\n">>

\* bytes.append(get_header_data()); bytes.append(bytes())
WireBytes(resp) == GetHeaderData(resp) \o resp.data

\* a server error that answers 400
server_error_as_400(msg) ==
    [message |-> msg, status_code |-> "BadRequest", override_output |-> FALSE]

\* the RouteError constructors; every one of them clears override_output
RouteError(message, status_code) ==
    [message |-> message, status_code |-> status_code, override_output |-> FALSE]
bad_request(msg) == RouteError(msg, "BadRequest")
forbidden(msg) == RouteError(msg, "Forbidden")
not_found(msg) == RouteError(msg, "NotFound")
conflict(msg) == RouteError(msg, "Conflict")
server_error(msg) == RouteError(msg, "InternalServerError")
custom(msg, status_code) == RouteError(msg, status_code)

\* the text RouteError::to_response builds
EnvelopeText(err) ==
    <<"{\n", "\t\"code\":\"", ToString(code(err.status_code)), "\",\n", "\t\"message\":\"">>
    \o err.message
    \o <<"\"", "\n}">>

\* RouteError::to_response
ToResponse(err) ==
    Header(Status(ResponseData(EnvelopeText(err)), err.status_code),
           "Content-Type", "Content-Type: application/json; charset=utf-8")

\* Server::default_error
DefaultError == [ok |-> TRUE, response |-> Status(ResponseString(<<"404 not found">>), "NotFound")]

\* Server::handle_options
HandleOptions(origin, headers) == ApplyCors(ResponseData(<<>>), origin, headers)

(***************************************************************************)
(* Inputs of the route-table operations.                                   *)
(***************************************************************************)
RawPaths == StringsUpTo(PathAlphabet, MaxPathLen)
Prefixes == {<<>>, <<"/">>, <<"a">>, <<"a", "/">>}
RouteInputs == {RouteNew(p, m, h) : p \in RawPaths, m \in RequestType, h \in Handlers}

RouteCount(storage) ==
    Len(storage["Get"]) + Len(storage["Post"]) + Len(storage["Put"])
    + Len(storage["Patch"]) + Len(storage["Delete"]) + Len(storage["Any"])

AllRoutes(storage) ==
    storage["Get"] \o storage["Post"] \o storage["Put"] \o storage["Patch"]
    \o storage["Delete"] \o storage["Any"]

NoLookup == [request_type |-> "None", target |-> <<>>, path |-> <<>>, found |-> NotFound]

(***************************************************************************)
(* The route table: registration, preparation, lookup.                     *)
(***************************************************************************)
RoutesInit ==
    /\ routes = EmptyStorage
    /\ prepped = FALSE
    /\ lookup = NoLookup

\* Server::register; limit bounds the routes registered before start
Register(r, limit) ==
    /\ ~prepped
    /\ RouteCount(routes) < limit
    /\ routes' = StorageAdd(routes, r)
    /\ UNCHANGED <<prepped, lookup>>

\* Server::module
Module(prefix, rs, limit) ==
    /\ ~prepped
    /\ RouteCount(routes) + Len(rs) <= limit
    /\ routes' = StorageAddAll(routes,
                    [i \in 1..Len(rs) |->
                        [rs[i] EXCEPT !.path = AppliedPrefix(prefix) \o rs[i].path]])
    /\ UNCHANGED <<prepped, lookup>>

\* Server::start, up to the accept loop
Prep ==
    /\ ~prepped
    /\ routes' = StoragePrep(routes)
    /\ prepped' = TRUE
    /\ UNCHANGED lookup

\* one pass of the accept loop as far as the route lookup
Lookup(request_type, target) ==
    /\ prepped
    /\ lookup = NoLookup
    /\ lookup' = [request_type |-> request_type,
                  target |-> target,
                  path |-> FramePath(target),
                  found |-> StorageHandler(routes, request_type, FramePath(target))]
    /\ UNCHANGED <<routes, prepped>>

\* the rest of the pass: the request is served and dropped
Served ==
    /\ lookup # NoLookup
    /\ lookup' = NoLookup
    /\ UNCHANGED <<routes, prepped>>

\* the targets a client asks for: any raw path, and every stored path with
\* and without a trailing '/'
Targets ==
    RawPaths
    \cup {AllRoutes(routes)[i].path : i \in 1..RouteCount(routes)}
    \cup {Append(AllRoutes(routes)[i].path, "/") : i \in 1..RouteCount(routes)}

(***************************************************************************)
(* The server: configuration, clients, and the loop of Server::start.      *)
(***************************************************************************)
MaxConns == 2        \* client connections
MaxSrvRoutes == 1    \* routes registered before the served connections

DefaultCorsOrigin == "*"
DefaultCorsHeaders == "Origin, X-Requested-With, Content-Type, Accept, Authorization"

ConnIds == 1..MaxConns

NoRequest == [request_type |-> "None", path |-> <<>>]
NoResponse == [data |-> <<>>, status |-> "None", headers |-> <<>>]
NoError == [message |-> <<>>, status_code |-> "None", override_output |-> FALSE]

\* what the application and the clients supply
CorsInputs == {[origin |-> "https://app", headers |-> "X-Token"]}
PostfixFns == {"stamp"}
SrvRouteInputs ==
    {RouteNew(<<"/", "a">>, "Get", "h1"), RouteNew(<<"/", "a">>, "Any", "h2")}
RequestInputs ==
    {[method |-> m, target |-> t] :
        m \in {"GET", "OPTIONS"}, t \in {<<"/", "a">>, <<"/", "b">>}}

\* a postfix function: it stamps the response and sets a CORS header
ApplyPostfix(f, resp) ==
    Header(Header(resp, "X-Post", "1"), "Access-Control-Allow-Origin", "evil")

\* what a registered handler may return
HandlerResults ==
    {[ok |-> TRUE, response |-> ResponseString(<<"o", "k">>)],
     [ok |-> TRUE,
      response |-> Header(ResponseData(<<>>), "Access-Control-Allow-Origin", "evil")],
     [ok |-> FALSE, error |-> not_found(<<"X">>)]}

\* what the treatment function may return: Ok, or a RouteError
TreatmentResults == {[ok |-> TRUE], [ok |-> FALSE, error |-> forbidden(<<"n", "o">>)]}

\* the results of the handler matched_path names
ResultsOf(h) == IF h = "default" THEN {DefaultError} ELSE HandlerResults

\* the results of one TcpStream::write of n bytes: an error, or a count
WriteResults(n) == {[ok |-> FALSE, n |-> 0]} \cup {[ok |-> TRUE, n |-> k] : k \in 0..n}

SrvInit ==
    /\ cors_origin = DefaultCorsOrigin
    /\ cors_headers = DefaultCorsHeaders
    /\ postfix = "none"
    /\ pc = "setup"
    /\ backlog = <<>>
    /\ conn = [c \in ConnIds |-> "new"]
    /\ stream = [c \in ConnIds |-> FALSE]
    /\ cur = 0
    /\ req = NoRequest
    /\ matched = "none"
    /\ response = NoResponse
    /\ bytes = <<>>
    /\ write_bytes = <<>>
    /\ sent = <<>>
    /\ wresult = "none"
    /\ log = <<>>

\* Server::set_cors
SetCors(origin, headers) ==
    /\ pc = "setup"
    /\ cors_origin' = origin
    /\ cors_headers' = headers
    /\ UNCHANGED <<routeVars, postfix, pc, clientVars, servedVars, errVars, codecVars>>

\* Server::set_postfix
SetPostfix(f) ==
    /\ pc = "setup"
    /\ postfix' = f
    /\ UNCHANGED <<routeVars, cors_origin, cors_headers, pc, clientVars, servedVars, errVars, codecVars>>

\* Server::register, before start
SrvRegister(r) ==
    /\ pc = "setup"
    /\ Register(r, MaxSrvRoutes)
    /\ UNCHANGED <<srvVars, errVars, codecVars>>

\* Server::start: prep, then the accept loop
Start ==
    /\ pc = "setup"
    /\ Prep
    /\ pc' = "accept"
    /\ UNCHANGED <<configVars, clientVars, servedVars, errVars, codecVars>>

\* a client connects; the listener queues the connection (clients are let in
\* once the server has started)
Connect(c) ==
    /\ pc # "setup"
    /\ conn[c] = "new"
    /\ conn' = [conn EXCEPT ![c] = "queued"]
    /\ backlog' = Append(backlog, c)
    /\ UNCHANGED <<routeVars, configVars, pc, stream, servedVars, errVars, codecVars>>

\* a client sends its request: the bytes arrive on the connection
Send(c) ==
    /\ conn[c] \in {"queued", "accepted"}
    /\ ~stream[c]
    /\ stream' = [stream EXCEPT ![c] = TRUE]
    /\ UNCHANGED <<routeVars, configVars, pc, backlog, conn, servedVars, errVars, codecVars>>

\* self.listener.accept().await
Accept ==
    /\ pc = "accept"
    /\ backlog # <<>>
    /\ cur' = Head(backlog)
    /\ backlog' = Tail(backlog)
    /\ conn' = [conn EXCEPT ![Head(backlog)] = "accepted"]
    /\ pc' = "frame"
    /\ UNCHANGED <<routeVars, configVars, stream, req, matched, response, bytes,
                   write_bytes, sent, wresult, log, errVars, codecVars>>

\* create_request_object
FrameRequest(input) ==
    [request_type |-> type_for_method(input.method), path |-> FramePath(input.target)]

\* the handler the lookup of Server::start selects
MatchedPath(storage, request) ==
    LET found == StorageHandler(storage, request.request_type, request.path)
    IN  IF found # NotFound THEN found.handler ELSE "default"

\* a server that never takes the OPTIONS branch
IsPreflightNever(request) == FALSE

\* req_parsed.request_type == RequestType::Options
IsPreflight(request) == request.request_type = "Options"

\* create_request_object(..).await returns with the request the client sent;
\* then the OPTIONS test, and either the preflight response or the route lookup
Frame(input) ==
    /\ pc = "frame"
    /\ stream[cur]
    /\ LET parsed == FrameRequest(input)
       IN  /\ req' = parsed
           /\ IF IsPreflight(parsed)
              THEN /\ response' = HandleOptions(cors_origin, cors_headers)
                   /\ bytes' = WireBytes(response')
                   /\ write_bytes' = bytes'
                   /\ matched' = matched
                   /\ log' = <<"frame">>
                   /\ pc' = "options_write"
              ELSE /\ matched' = MatchedPath(routes, parsed)
                   /\ log' = <<"frame", "lookup">>
                   /\ pc' = "db"
                   /\ UNCHANGED <<response, bytes, write_bytes>>
    /\ UNCHANGED <<routeVars, configVars, clientVars, cur, sent, wresult, errVars, codecVars>>

\* _ = req_stream.write(&bytes).await; continue
OptionsWrite(res) ==
    /\ pc = "options_write"
    /\ IF ~res.ok
       THEN /\ wresult' = "err"
            /\ UNCHANGED <<sent, write_bytes>>
       ELSE /\ wresult' = "ok"
            /\ sent' = SubSeq(write_bytes, 1, res.n)
            /\ write_bytes' = SubSeq(write_bytes, res.n + 1, Len(write_bytes))
    /\ log' = Append(log, "write")
    /\ pc' = "close"
    /\ UNCHANGED <<routeVars, configVars, clientVars, cur, req, matched, response,
                   bytes, errVars, codecVars>>

\* the response of an error arm of the match: to_response, then apply_cors
\* and the wire buffer
RespondWith(resp, phases) ==
    /\ response' = ApplyCors(resp, cors_origin, cors_headers)
    /\ bytes' = WireBytes(response')
    /\ write_bytes' = bytes'
    /\ log' = log \o phases \o <<"cors">>
    /\ pc' = "write"

\* a loop that hands the request to the handler without the treatment
DbAcquireNoTreatment(ok) ==
    /\ pc = "db"
    /\ IF ok
       THEN /\ pc' = "handler"
            /\ log' = Append(log, "db")
            /\ UNCHANGED <<response, bytes, write_bytes>>
       ELSE RespondWith(ToResponse(server_error(<<"Cannot connect to database.">>)),
                        <<"db_err">>)
    /\ UNCHANGED <<routeVars, configVars, clientVars, cur, req, matched, sent,
                   wresult, errVars, codecVars>>

\* self.database.get_connection().await
DbAcquire(ok) ==
    /\ pc = "db"
    /\ IF ok
       THEN /\ pc' = "treatment"
            /\ log' = Append(log, "db")
            /\ UNCHANGED <<response, bytes, write_bytes>>
       ELSE RespondWith(ToResponse(server_error(<<"Cannot connect to database.">>)),
                        <<"db_err">>)
    /\ UNCHANGED <<routeVars, configVars, clientVars, cur, req, matched, sent,
                   wresult, errVars, codecVars>>

\* (self.treatment)(req.request, db_inst).await
Treatment(res) ==
    /\ pc = "treatment"
    /\ IF res.ok
       THEN /\ pc' = "handler"
            /\ log' = Append(log, "treatment")
            /\ UNCHANGED <<response, bytes, write_bytes>>
       ELSE RespondWith(ToResponse(res.error), <<"treatment_err">>)
    /\ UNCHANGED <<routeVars, configVars, clientVars, cur, req, matched, sent,
                   wresult, errVars, codecVars>>

\* matched_path(req, obj, treat).await, unwrap_or_else, the postfix
Handler(res) ==
    /\ pc = "handler"
    /\ LET body == IF res.ok THEN res.response ELSE ToResponse(res.error)
       IN  IF postfix # "none"
           THEN RespondWith(ApplyPostfix(postfix, body), <<"handler", "postfix">>)
           ELSE RespondWith(body, <<"handler">>)
    /\ UNCHANGED <<routeVars, configVars, clientVars, cur, req, matched, sent,
                   wresult, errVars, codecVars>>

\* one pass of the write loop
Write(res) ==
    /\ pc = "write"
    /\ IF ~res.ok
       THEN /\ wresult' = "err"
            /\ pc' = "close"
            /\ UNCHANGED <<sent, write_bytes>>
       ELSE /\ sent' = sent \o SubSeq(write_bytes, 1, res.n)
            /\ write_bytes' = SubSeq(write_bytes, res.n + 1, Len(write_bytes))
            /\ IF res.n = Len(write_bytes)
               THEN wresult' = "ok" /\ pc' = "close"
               ELSE UNCHANGED <<wresult, pc>>
    /\ log' = IF log[Len(log)] = "write" THEN log ELSE Append(log, "write")
    /\ UNCHANGED <<routeVars, configVars, clientVars, cur, req, matched, response,
                   bytes, errVars, codecVars>>

\* the end of the loop body: the stream is dropped
Close ==
    /\ pc = "close"
    /\ conn' = [conn EXCEPT ![cur] = "closed"]
    /\ stream' = [stream EXCEPT ![cur] = FALSE]
    /\ cur' = 0
    /\ req' = NoRequest
    /\ matched' = "none"
    /\ response' = NoResponse
    /\ bytes' = <<>>
    /\ write_bytes' = <<>>
    /\ sent' = <<>>
    /\ wresult' = "none"
    /\ log' = <<>>
    /\ pc' = "accept"
    /\ UNCHANGED <<routeVars, configVars, backlog, errVars, codecVars>>

(***************************************************************************)
(* RouteError values and their conversion.                                 *)
(***************************************************************************)
MaxMsgLen == 2       \* length of an error message

MsgAlphabet == {"a", "\"", "\\"}
Messages == StringsUpTo(MsgAlphabet, MaxMsgLen)

ErrInit ==
    /\ error = NoError
    /\ converted = NoResponse

\* one of the constructors of RouteError
NewError(e) ==
    /\ error = NoError
    /\ error' = e
    /\ UNCHANGED <<routeVars, srvVars, converted, codecVars>>

\* the application sets the public field override_output
SetOverride ==
    /\ error # NoError
    /\ converted = NoResponse
    /\ ~error.override_output
    /\ error' = [error EXCEPT !.override_output = TRUE]
    /\ UNCHANGED <<routeVars, srvVars, converted, codecVars>>

\* RouteError::to_response
Convert ==
    /\ error # NoError
    /\ converted = NoResponse
    /\ converted' = ToResponse(error)
    /\ UNCHANGED <<routeVars, srvVars, error, codecVars>>

(***************************************************************************)
(* Responses built by the application.                                     *)
(***************************************************************************)
MaxBodyLen == 2      \* length of a response body
MaxCalls == 3        \* constructor and builder calls on one response

BodyAlphabet == {"a", "\""}
Bodies == StringsUpTo(BodyAlphabet, MaxBodyLen)
Constructors == {"data", "string", "json", "html"}
RespErrors == {not_found(<<"a">>), custom(<<>>, "ImATeapot")}
HeaderInputs ==
    {[key |-> k, value |-> v] :
        k \in {"X-Post", "Content-Type", "Content-Length"}, v \in {"1", "text/css"}}

RespInit ==
    /\ built = NoResponse
    /\ calls = <<>>

\* Response::data, Response::string, Response::json or Response::html
Construct(kind, body) ==
    /\ built = NoResponse
    /\ built' = CASE kind = "data" -> ResponseData(body)
                  [] kind = "string" -> ResponseString(body)
                  [] kind = "json" -> ResponseJson(body)
                  [] kind = "html" -> ResponseHtml(body)
    /\ calls' = <<[op |-> kind, key |-> ""]>>
    /\ UNCHANGED <<routeVars, srvVars, errVars, formVars, jsonVars, frameVars>>

\* RouteError::to_response
ConstructError(e) ==
    /\ built = NoResponse
    /\ built' = ToResponse(e)
    /\ calls' = <<[op |-> "to_response", key |-> ""]>>
    /\ UNCHANGED <<routeVars, srvVars, errVars, formVars, jsonVars, frameVars>>

\* Response::status
CallStatus(st) ==
    /\ built # NoResponse
    /\ Len(calls) < MaxCalls
    /\ built' = Status(built, st)
    /\ calls' = Append(calls, [op |-> "status", key |-> ""])
    /\ UNCHANGED <<routeVars, srvVars, errVars, formVars, jsonVars, frameVars>>

\* Response::apply_cors
CallApplyCors(origin, headers) ==
    /\ built # NoResponse
    /\ Len(calls) < MaxCalls
    /\ built' = ApplyCors(built, origin, headers)
    /\ calls' = Append(calls, [op |-> "apply_cors", key |-> ""])
    /\ UNCHANGED <<routeVars, srvVars, errVars, formVars, jsonVars, frameVars>>

\* Response::header
CallHeader(key, value) ==
    /\ built # NoResponse
    /\ Len(calls) < MaxCalls
    /\ built' = Header(built, key, value)
    /\ calls' = Append(calls, [op |-> "header", key |-> key])
    /\ UNCHANGED <<routeVars, srvVars, errVars, formVars, jsonVars, frameVars>>

(***************************************************************************)
(* Form bodies: UrlEncoded.                                                *)
(***************************************************************************)
MaxValueLen == 5     \* length of a value of a form body

\* str::replace
RECURSIVE Replace(_, _, _)
Replace(s, from, to) ==
    IF s = <<>> THEN <<>>
    ELSE IF IsPrefix(from, s)
    THEN to \o Replace(SubSeq(s, Len(from) + 1, Len(s)), from, to)
    ELSE <<Head(s)>> \o Replace(Tail(s), from, to)

\* str::split on one character
RECURSIVE Split(_, _)
Split(s, sep) ==
    IF \E i \in 1..Len(s) : s[i] = sep
    THEN LET i == CHOOSE j \in 1..Len(s) : s[j] = sep /\ \A k \in 1..(j - 1) : s[k] # sep
         IN  <<SubSeq(s, 1, i - 1)>> \o Split(SubSeq(s, i + 1, Len(s)), sep)
    ELSE <<s>>

\* the replacements of decode_url, in the order it applies them
DecodeTable ==
    << [from |-> <<"+">>, to |-> " "],
       [from |-> <<"%", "2", "0">>, to |-> " "],
       [from |-> <<"%", "2", "1">>, to |-> "!"],
       [from |-> <<"%", "2", "2">>, to |-> "\""],
       [from |-> <<"%", "2", "3">>, to |-> "#"],
       [from |-> <<"%", "2", "4">>, to |-> "$"],
       [from |-> <<"%", "2", "6">>, to |-> "&"],
       [from |-> <<"%", "2", "7">>, to |-> "'"],
       [from |-> <<"%", "2", "8">>, to |-> "("],
       [from |-> <<"%", "2", "9">>, to |-> ")"],
       [from |-> <<"%", "2", "A">>, to |-> "*"],
       [from |-> <<"%", "2", "B">>, to |-> "+"],
       [from |-> <<"%", "2", "C">>, to |-> ","],
       [from |-> <<"%", "2", "5">>, to |-> "%"],
       [from |-> <<"%", "5", "B">>, to |-> "["],
       [from |-> <<"%", "5", "D">>, to |-> "]"] >>

RECURSIVE DecodeFrom(_, _)
DecodeFrom(s, i) ==
    IF i > Len(DecodeTable) THEN s
    ELSE DecodeFrom(Replace(s, DecodeTable[i].from, <<DecodeTable[i].to>>), i + 1)

\* UrlEncodedParse::decode_url
decode_url(s) == DecodeFrom(s, 1)

\* the (key, value) pairs the filter_map of UrlEncoded::from_string yields
RECURSIVE PairsOf(_)
PairsOf(pieces) ==
    IF pieces = <<>> THEN <<>>
    ELSE LET x_spl == Split(Head(pieces), "=")
         IN  (IF Len(x_spl) >= 2
              THEN <<[key |-> decode_url(x_spl[1]), value |-> x_spl[2]]>>
              ELSE <<>>)
             \o PairsOf(Tail(pieces))

\* collect() into a HashMap: the last pair of a key wins
CollectMap(pairs) ==
    [k \in {pairs[i].key : i \in 1..Len(pairs)} |->
        pairs[CHOOSE i \in 1..Len(pairs) :
                 /\ pairs[i].key = k
                 /\ \A j \in (i + 1)..Len(pairs) : pairs[j].key # k].value]

\* UrlEncoded::from_string
UrlEncodedFromString(d) == CollectMap(PairsOf(Split(d, "&")))

\* UrlEncoded::get::<_, String>
UrlEncodedGet(vals, key) ==
    IF key \in DOMAIN vals
    THEN [key |-> key, found |-> TRUE, value |-> decode_url(vals[key])]
    ELSE [key |-> key, found |-> FALSE, value |-> <<>>]

NoText == <<"none">>
NoGot == [key |-> NoText, found |-> FALSE, value |-> <<>>]

ValueAlphabet == {"%", "2", "5", "B", "+"}
FormKeys == {<<"a">>, <<"b">>}
FormValues == StringsUpTo(ValueAlphabet, MaxValueLen)
FormPair(k, v) == k \o <<"=">> \o v
FormBodies ==
    {FormPair(k, v) : k \in FormKeys, v \in FormValues}
    \cup {FormPair(<<"a">>, <<"1">>) \o <<"&">> \o FormPair(k, <<"2">>) : k \in FormKeys}
    \cup {<<>>, <<"a">>}

FormInit ==
    /\ form = NoText
    /\ values = <<>>
    /\ got = NoGot

\* UrlEncoded::from_string
FormParse(d) ==
    /\ form = NoText
    /\ form' = d
    /\ values' = UrlEncodedFromString(d)
    /\ UNCHANGED <<routeVars, srvVars, errVars, respVars, got, jsonVars, frameVars>>

\* UrlEncoded::get
FormGet(key) ==
    /\ form # NoText
    /\ got = NoGot
    /\ got' = UrlEncodedGet(values, key)
    /\ UNCHANGED <<routeVars, srvVars, errVars, respVars, form, values, jsonVars, frameVars>>

(***************************************************************************)
(* JSON texts: JsonObject::from_string and JsonArray::from_string.         *)
(***************************************************************************)
MaxStrLen == 4       \* length of the text of a JSON string value

JsonDigits == {"0", "1", "2", "3", "4", "5", "6", "7", "8", "9"}

\* JsonType::type_for_delimiter; "panic" stands for its panic!
type_for_delimiter(dlm) ==
    CASE dlm \in JsonDigits -> "Number"
      [] dlm = "\"" -> "String"
      [] dlm \in {"f", "t"} -> "Boolean"
      [] dlm = "[" -> "Array"
      [] dlm = "{" -> "Object"
      [] OTHER -> "panic"

\* JsonType::is_primitive
is_primitive(content_type) == content_type \in {"Number", "Boolean"}

\* the key loop: up to the next quote, then one character (the colon) skipped
RECURSIVE ReadKey(_, _, _)
ReadKey(s, i, key) ==
    IF i > Len(s) THEN [text |-> key, next |-> i]
    ELSE IF s[i] # "\"" THEN ReadKey(s, i + 1, Append(key, s[i]))
    ELSE [text |-> key, next |-> i + 2]

\* the spacing loop: the first character that is not a space, ' ' at the end
RECURSIVE SkipSpaces(_, _)
SkipSpaces(s, i) ==
    IF i > Len(s) THEN [start |-> " ", next |-> i]
    ELSE IF s[i] # " " THEN [start |-> s[i], next |-> i + 1]
    ELSE SkipSpaces(s, i + 1)

\* the string loop: a quote ends the value unless last_value is a backslash
RECURSIVE ReadString(_, _, _, _)
ReadString(s, i, contents, last_value) ==
    IF i > Len(s) THEN [text |-> contents, next |-> i]
    ELSE IF s[i] # "\"" THEN ReadString(s, i + 1, Append(contents, s[i]), s[i])
    ELSE IF last_value = "\\"
    THEN ReadString(s, i + 1,
                    Append(SubSeq(contents, 1, Len(contents) - 1), s[i]), s[i])
    ELSE [text |-> contents, next |-> i + 1]

\* the primitive loop: up to the next comma
RECURSIVE ReadPrimitive(_, _, _)
ReadPrimitive(s, i, contents) ==
    IF i > Len(s) THEN [text |-> contents, next |-> i]
    ELSE IF s[i] # "," THEN ReadPrimitive(s, i + 1, Append(contents, s[i]))
    ELSE [text |-> contents, next |-> i + 1]

\* the object and array loops: up to the delimiter that brings the count to
\* 0; the closing '}' of an object is popped, the closing ']' is kept
RECURSIVE ReadNested(_, _, _, _, _, _)
ReadNested(s, i, contents, delimiter_stack_count, open, close) ==
    IF i > Len(s) THEN [text |-> contents, next |-> i]
    ELSE LET count == delimiter_stack_count
                      + (IF s[i] = open THEN 1 ELSE 0)
                      - (IF s[i] = close THEN 1 ELSE 0)
         IN  IF s[i] = close /\ count = 0
             THEN [text |-> IF close = "}" THEN contents ELSE Append(contents, s[i]),
                   next |-> i + 1]
             ELSE ReadNested(s, i + 1, Append(contents, s[i]), count, open, close)

\* the value that starts with value_start, read as its type says
ReadValue(s, i, content_type, value_start) ==
    CASE content_type = "String" -> ReadString(s, i, <<>>, "0")
      [] is_primitive(content_type) -> ReadPrimitive(s, i, <<value_start>>)
      [] content_type = "Object" -> ReadNested(s, i, <<"{">>, 1, "{", "}")
      [] content_type = "Array" -> ReadNested(s, i, <<"[">>, 1, "[", "]")

\* the outer loop of JsonObject::from_string
RECURSIVE ObjectMembers(_, _)
ObjectMembers(s, i) ==
    IF i > Len(s) THEN [ok |-> TRUE, members |-> <<>>]
    ELSE IF s[i] # "\"" THEN ObjectMembers(s, i + 1)
    ELSE LET key == ReadKey(s, i + 1, <<>>)
             spacing == SkipSpaces(s, key.next)
             content_type == type_for_delimiter(spacing.start)
         IN  IF content_type = "panic" THEN [ok |-> FALSE, members |-> <<>>]
             ELSE LET value == ReadValue(s, spacing.next, content_type, spacing.start)
                      rest == ObjectMembers(s, value.next)
                  IN  IF ~rest.ok THEN rest
                      ELSE [ok |-> TRUE,
                            members |-> <<[key |-> key.text,
                                           content_type |-> content_type,
                                           contents |-> value.text]>>
                                        \o rest.members]

\* the comma search after a value that is not a primitive
RECURSIVE SkipToComma(_, _)
SkipToComma(s, i) ==
    IF i > Len(s) THEN i
    ELSE IF s[i] = "," THEN i + 1
    ELSE SkipToComma(s, i + 1)

\* the outer loop of JsonArray::from_string
RECURSIVE ArrayValues(_, _)
ArrayValues(s, i) ==
    IF i > Len(s) THEN [ok |-> TRUE, members |-> <<>>]
    ELSE LET spacing == SkipSpaces(s, i)
             content_type == type_for_delimiter(spacing.start)
         IN  IF content_type = "panic" THEN [ok |-> FALSE, members |-> <<>>]
             ELSE LET value == ReadValue(s, spacing.next, content_type, spacing.start)
                      after == IF is_primitive(content_type) THEN value.next
                               ELSE SkipToComma(s, value.next)
                      rest == ArrayValues(s, after)
                  IN  IF ~rest.ok THEN rest
                      ELSE [ok |-> TRUE,
                            members |-> <<[content_type |-> content_type,
                                           contents |-> value.text]>>
                                        \o rest.members]

\* HashMap::insert of every member in turn: the last member of a key wins
KeysOf(members) ==
    [k \in {members[i].key : i \in 1..Len(members)} |->
        LET last == CHOOSE i \in 1..Len(members) :
                        /\ members[i].key = k
                        /\ \A j \in (i + 1)..Len(members) : members[j].key # k
        IN  [content_type |-> members[last].content_type,
             contents |-> members[last].contents]]

JsonPanic == [ok |-> FALSE, kind |-> "panic", keys |-> <<>>, values |-> <<>>]
NoDocument == [ok |-> FALSE, kind |-> "none", keys |-> <<>>, values |-> <<>>]

\* JsonObject::from_string: the text without its last character, then the
\* outer loop; the slice panics on the empty text
JsonObjectFromString(text) ==
    IF Len(text) = 0 THEN JsonPanic
    ELSE LET parse == ObjectMembers(SubSeq(text, 1, Len(text) - 1), 1)
         IN  IF ~parse.ok THEN JsonPanic
             ELSE [ok |-> TRUE, kind |-> "object", keys |-> KeysOf(parse.members),
                   values |-> <<>>]

\* JsonArray::from_string: the text without its first and last character,
\* then the outer loop; the slice panics on a text shorter than 2
JsonArrayFromString(text) ==
    IF Len(text) < 2 THEN JsonPanic
    ELSE LET parse == ArrayValues(SubSeq(text, 2, Len(text) - 1), 1)
         IN  IF ~parse.ok THEN JsonPanic
             ELSE [ok |-> TRUE, kind |-> "array", keys |-> <<>>,
                   values |-> parse.members]

\* the texts of JSON string values: every quote and backslash in them escaped
StrAlphabet == {"a", " ", "\\", "\""}
RECURSIVE IsStringText(_)
IsStringText(v) ==
    IF v = <<>> THEN TRUE
    ELSE IF Head(v) = "\"" THEN FALSE
    ELSE IF Head(v) = "\\"
    THEN Len(v) >= 2 /\ v[2] \in {"\\", "\""} /\ IsStringText(SubSeq(v, 3, Len(v)))
    ELSE IsStringText(Tail(v))
ExampleText == <<"a", " ", "\\", "\"", "a", "\\", "\"">>
StringTexts ==
    {v \in StringsUpTo(StrAlphabet, MaxStrLen) : IsStringText(v)} \cup {ExampleText}

\* {"k": "<v>", "n": 5} and ["<v>", 5]
ObjectPrefix == <<"{", "\"", "k", "\"", ":", " ", "\"">>
ObjectSuffix == <<"\"", ",", " ", "\"", "n", "\"", ":", " ", "5", "}">>
ArrayPrefix == <<"[", "\"">>
ArraySuffix == <<"\"", ",", " ", "5", "]">>
ObjectTexts == {ObjectPrefix \o v \o ObjectSuffix : v \in StringTexts}
ArrayTexts == {ArrayPrefix \o v \o ArraySuffix : v \in StringTexts}

\* nested values whose text holds a string with delimiters in it:
\* {"s": "<w>"} and ["<w>"], as the value of k in {"k": N, "n": 5} and as the
\* first value of [N, 5]
MaxNestLen == 2      \* length of the string inside a nested value
DelimAlphabet == {"a", "{", "}", "[", "]"}
DelimTexts == StringsUpTo(DelimAlphabet, MaxNestLen)
NestedObject(w) == <<"{", "\"", "s", "\"", ":", " ", "\"">> \o w \o <<"\"", "}">>
NestedArray(w) == <<"[", "\"">> \o w \o <<"\"", "]">>
NestedValues == {NestedObject(w) : w \in DelimTexts} \cup {NestedArray(w) : w \in DelimTexts}
KeyPrefix == <<"{", "\"", "k", "\"", ":", " ">>
MemberSuffix == <<",", " ", "\"", "n", "\"", ":", " ", "5", "}">>
ValueSuffix == <<",", " ", "5", "]">>
NestedObjectTexts == {KeyPrefix \o N \o MemberSuffix : N \in NestedValues}
NestedArrayTexts == {<<"[">> \o N \o ValueSuffix : N \in NestedValues}

\* bare primitive tokens as the value of k and as the first value of an array
PrimitiveTokens ==
    {<<"1">>, <<"1", "2">>, <<"-", "1">>, <<"t", "r", "u", "e">>,
     <<"f", "a", "l", "s", "e">>, <<"n", "u", "l", "l">>}
PrimitiveObjectTexts == {KeyPrefix \o p \o MemberSuffix : p \in PrimitiveTokens}
PrimitiveArrayTexts == {<<"[">> \o p \o ValueSuffix : p \in PrimitiveTokens}

\* nested objects by their last member: {"a": <p>} and {"b": "x", "a": <p>},
\* as the value of k in {"k": N, "n": 5}
LastMembers ==
    {<<"1">>, <<"1", "2">>, <<"t", "r", "u", "e">>, <<"\"", "x", "\"">>}
InnerObject(p) == <<"{", "\"", "a", "\"", ":", " ">> \o p \o <<"}">>
InnerObjects ==
    {InnerObject(p) : p \in LastMembers}
    \cup {<<"{", "\"", "b", "\"", ":", " ", "\"", "x", "\"", ",", " ">>
          \o Tail(InnerObject(p)) : p \in LastMembers}
InnerObjectTexts == {KeyPrefix \o N \o MemberSuffix : N \in InnerObjects}

NoValue == [kind |-> "none", entries |-> <<>>]
NoRetrieved ==
    [kind |-> "none", some |-> FALSE, text |-> <<>>, n |-> 0, object |-> NoDocument]
None == [NoRetrieved EXCEPT !.kind = "value"]
RetrievedPanic == [NoRetrieved EXCEPT !.kind = "panic"]

\* JsonObject::object
object(doc, key) ==
    IF key \notin DOMAIN doc.keys THEN None
    ELSE IF doc.keys[key].content_type # "Object" THEN None
    ELSE LET inner == JsonObjectFromString(doc.keys[key].contents)
         IN  IF ~inner.ok THEN RetrievedPanic
             ELSE [None EXCEPT !.some = TRUE, !.object = inner]

JsonInit ==
    /\ json = NoText
    /\ document = NoDocument
    /\ original = NoValue
    /\ retrieved = NoRetrieved

\* JsonObject::from_string
ParseObject(text) ==
    /\ json = NoText
    /\ json' = text
    /\ document' = JsonObjectFromString(text)
    /\ UNCHANGED <<routeVars, srvVars, errVars, respVars, formVars, frameVars,
                   original, retrieved>>

\* JsonArray::from_string
ParseArray(text) ==
    /\ json = NoText
    /\ json' = text
    /\ document' = JsonArrayFromString(text)
    /\ UNCHANGED <<routeVars, srvVars, errVars, respVars, formVars, frameVars,
                   original, retrieved>>

(***************************************************************************)
(* Request framing: Server::create_request_object.                         *)
(***************************************************************************)
MaxWireBody == 2     \* bytes a client sends after the blank line

\* the header loop: the bytes read up to the blank line (two line ends in a
\* row make whitespace_count 4), or all of them when the stream ends first
HeaderSection(stream_bytes) ==
    LET ends == {i \in 2..Len(stream_bytes) :
                    stream_bytes[i - 1] = "\r\n" /\ stream_bytes[i] = "\r\n"}
    IN  IF ends = {} THEN Len(stream_bytes)
        ELSE CHOOSE i \in ends : \A j \in ends : i <= j

\* str::lines: a line end at the very end opens no further line
Lines(content) ==
    LET pieces == Split(content, "\r\n")
    IN  IF pieces[Len(pieces)] = <<>> THEN SubSeq(pieces, 1, Len(pieces) - 1)
        ELSE pieces

\* take_while(|a| !a.is_empty())
RECURSIVE TakeNonEmpty(_)
TakeNonEmpty(lines) ==
    IF lines = <<>> \/ Head(lines) = <<>> THEN <<>>
    ELSE <<Head(lines)>> \o TakeNonEmpty(Tail(lines))

\* str::to_lowercase of a header name
ToLowercase(name) ==
    [i \in 1..Len(name) |->
        CASE name[i] = "Content-Type" -> "content-type"
          [] name[i] = "Content-Length" -> "content-length"
          [] OTHER -> name[i]]

\* str::parse::<usize>().unwrap_or(0)
ParseUsize(text) ==
    IF text = <<"1">> THEN 1
    ELSE IF text = <<"2">> THEN 2
    ELSE IF text = <<"3">> THEN 3
    ELSE 0

\* String::from_utf8(data) is Ok
IsUtf8(data) == "0xFF" \notin Range(data)

TYPE_JSON == <<"application/json">>
TYPE_OCTET_STREAM == <<"application/octet-stream">>
TYPE_URL_ENCODED == <<"application/x-www-form-urlencoded">>
TYPE_LD_JSON == <<"application/ld+json">>
TYPE_PLAIN_TEXT == <<"text/plain">>

\* BodyContents::type_from_mime; kind "panic" stands for a failed unwrap or a
\* panic of the JSON parser
type_from_mime(mime, data) ==
    CASE mime = TYPE_OCTET_STREAM -> [kind |-> "Binary", data |-> data]
      [] mime \in {TYPE_JSON, TYPE_LD_JSON} ->
            IF ~IsUtf8(data) THEN [kind |-> "panic", data |-> data]
            ELSE IF data # <<>> /\ Head(data) = "["
            THEN (IF JsonArrayFromString(data).ok
                  THEN [kind |-> "JsonArray", data |-> data]
                  ELSE [kind |-> "panic", data |-> data])
            ELSE (IF JsonObjectFromString(data).ok
                  THEN [kind |-> "JsonObject", data |-> data]
                  ELSE [kind |-> "panic", data |-> data])
      [] mime = TYPE_PLAIN_TEXT ->
            IF IsUtf8(data) THEN [kind |-> "PlainText", data |-> data]
            ELSE [kind |-> "panic", data |-> data]
      [] mime = TYPE_URL_ENCODED ->
            IF IsUtf8(data) THEN [kind |-> "UrlEncoded", data |-> data]
            ELSE [kind |-> "panic", data |-> data]
      [] OTHER -> [kind |-> "Binary", data |-> data]

\* content_type.split(' ')[0].replace(';', "")
NoCharset(content_type) == SelectSeq(Split(content_type, " ")[1], LAMBDA t : t # ";")

\* the (name, value) pairs of the header lines: d[0].to_lowercase(), d[1]
HeaderPairs(lines) ==
    [i \in 1..Len(lines) |->
        LET d == Split(lines[i], ": ")
        IN  [key |-> ToLowercase(d[1]), value |-> d[2]]]

\* the pairs of the query section: q[0], q.get(1).unwrap_or("")
QueryPairs(q_d) ==
    LET xs == Split(q_d, "&")
    IN  [i \in 1..Len(xs) |->
            LET q == Split(xs[i], "=")
            IN  [key |-> q[1], value |-> IF Len(q) >= 2 THEN q[2] ELSE <<>>]]

NoBody == [kind |-> "None", data |-> <<>>]
EmptyRequest ==
    [request_type |-> "None", path |-> <<>>, query |-> <<>>, headers |-> <<>>,
     body |-> NoBody]
FramePanic == [outcome |-> "panic", request |-> EmptyRequest]
FrameHang == [outcome |-> "hang", request |-> EmptyRequest]
NoFramed == [outcome |-> "none", request |-> EmptyRequest]

\* the body of the framed request: content_len bytes read after the blank
\* line and classified; "hang" when the stream ends before content_len bytes
\* (the read loop never leaves), "panic" when the classification panics
BodyOf(headers, rest) ==
    IF <<"content-length">> \notin DOMAIN headers THEN [outcome |-> "ok", body |-> NoBody]
    ELSE LET content_len == ParseUsize(headers[<<"content-length">>])
         IN  IF Len(rest) < content_len THEN [outcome |-> "hang", body |-> NoBody]
             ELSE LET content == SubSeq(rest, 1, content_len)
                      mime == IF <<"content-type">> \in DOMAIN headers
                              THEN NoCharset(headers[<<"content-type">>])
                              ELSE <<>>
                      body == type_from_mime(mime, content)
                  IN  IF body.kind = "panic" THEN [outcome |-> "panic", body |-> NoBody]
                      ELSE [outcome |-> "ok", body |-> body]

\* Server::create_request_object; "panic" stands for an index out of bounds
\* (req[0], head[1], d[1]) or a panic of the body classification
create_request_object(stream_bytes) ==
    LET n == HeaderSection(stream_bytes)
        request_lines == TakeNonEmpty(Lines(SubSeq(stream_bytes, 1, n)))
        rest == SubSeq(stream_bytes, n + 1, Len(stream_bytes))
    IN  IF request_lines = <<>> THEN FramePanic
        ELSE LET head == Split(request_lines[1], " ")
                 header_lines == Tail(request_lines)
             IN  IF Len(head) < 2 THEN FramePanic
                 ELSE IF \E i \in 1..Len(header_lines) :
                            Len(Split(header_lines[i], ": ")) < 2
                 THEN FramePanic
                 ELSE LET path == Split(head[2], "?")
                          headers == CollectMap(HeaderPairs(header_lines))
                          body == BodyOf(headers, rest)
                      IN  IF body.outcome = "panic" THEN FramePanic
                          ELSE IF body.outcome = "hang" THEN FrameHang
                          ELSE [outcome |-> "ok",
                                request |->
                                  [request_type |->
                                      type_for_method(IF Len(head[1]) = 1
                                                      THEN head[1][1] ELSE ""),
                                   path |-> FramePath(path[1]),
                                   query |-> IF Len(path) >= 2
                                             THEN CollectMap(QueryPairs(path[2]))
                                             ELSE <<>>,
                                   headers |-> headers,
                                   body |-> body.body]]

\* what a client may send: a request line, header lines, the blank line or
\* the end of the stream, and body bytes
RequestLines ==
    {<<>>,
     <<"GET">>,
     <<"GET", " ", "/", "a", " ", "HTTP/1.1">>,
     <<"POST", " ", "/", "a", "/", "?", "q", "=", "1", " ", "HTTP/1.1">>}
MediaTypes ==
    {TYPE_JSON, TYPE_LD_JSON, TYPE_URL_ENCODED, TYPE_PLAIN_TEXT, <<"image/png">>}
ContentTypeValues ==
    MediaTypes
    \cup {t \o <<";", " ", "charset=utf-8">> : t \in MediaTypes}
    \cup {t \o <<";", "charset=utf-8">> : t \in MediaTypes}
ContentTypeLines ==
    {<<>>, <<"X-Bad">>} \cup {<<"Content-Type", ": ">> \o v : v \in ContentTypeValues}
ContentLengthLines ==
    {<<>>} \cup {<<"Content-Length", ": ", n>> : n \in {"2", "x"}}
BodyBytes == {"[", " ", "a", "0xFF"}
WireBodies == StringsUpTo(BodyBytes, MaxWireBody)
LineOf(line) == IF line = <<>> THEN <<>> ELSE line \o <<"\r\n">>
Wires ==
    {LineOf(rl) \o LineOf(ct) \o LineOf(cl) \o end \o body :
        rl \in RequestLines, ct \in ContentTypeLines, cl \in ContentLengthLines,
        end \in {<<>>, <<"\r\n">>}, body \in WireBodies}

FrameInit ==
    /\ wire = NoText
    /\ framed = NoFramed

\* a client writes its bytes and ends its stream
ClientWrites(w) ==
    /\ wire = NoText
    /\ wire' = w
    /\ UNCHANGED <<routeVars, srvVars, errVars, respVars, formVars, jsonVars, framed>>

\* create_request_object on the bytes of the connection
FrameWire ==
    /\ wire # NoText
    /\ framed = NoFramed
    /\ framed' = create_request_object(wire)
    /\ UNCHANGED <<routeVars, srvVars, errVars, respVars, formVars, jsonVars, wire>>


(***************************************************************************)
(* Specifications.                                                         *)
(***************************************************************************)
Init == RoutesInit /\ SrvInit /\ ErrInit /\ RespInit /\ FormInit /\ JsonInit /\ FrameInit

RoutesNext ==
    \/ \E r \in RouteInputs : Register(r, MaxRoutes) /\ UNCHANGED <<srvVars, errVars, codecVars>>
    \/ Prep /\ UNCHANGED <<srvVars, errVars, codecVars>>
    \/ \E m \in RequestType \ {"Options"} : \E t \in Targets :
          Lookup(m, t) /\ UNCHANGED <<srvVars, errVars, codecVars>>
    \/ Served /\ UNCHANGED <<srvVars, errVars, codecVars>>

SpecRoutes == Init /\ [][RoutesNext]_vars

ModuleInputs == UNION {[1..n -> RouteInputs] : n \in 1..MaxModule}

ModuleNext ==
    \/ \E r \in RouteInputs : Register(r, MaxModule) /\ UNCHANGED <<srvVars, errVars, codecVars>>
    \/ \E prefix \in Prefixes : \E rs \in ModuleInputs :
          Module(prefix, rs, MaxModule) /\ UNCHANGED <<srvVars, errVars, codecVars>>
    \/ Prep /\ UNCHANGED <<srvVars, errVars, codecVars>>
    \/ \E m \in RequestType \ {"Options"} : \E t \in Targets :
          Lookup(m, t) /\ UNCHANGED <<srvVars, errVars, codecVars>>
    \/ Served /\ UNCHANGED <<srvVars, errVars, codecVars>>

SpecModule == Init /\ [][ModuleNext]_vars

Next ==
    \/ \E c \in CorsInputs : SetCors(c.origin, c.headers)
    \/ \E f \in PostfixFns : SetPostfix(f)
    \/ \E r \in SrvRouteInputs : SrvRegister(r)
    \/ Start
    \/ \E c \in ConnIds : Connect(c)
    \/ \E c \in ConnIds : Send(c)
    \/ Accept
    \/ \E input \in RequestInputs : Frame(input)
    \/ \E res \in WriteResults(Len(write_bytes)) : OptionsWrite(res)
    \/ \E ok \in BOOLEAN : DbAcquire(ok)
    \/ \E res \in TreatmentResults : Treatment(res)
    \/ \E res \in ResultsOf(matched) : Handler(res)
    \/ \E res \in WriteResults(Len(write_bytes)) : Write(res)
    \/ Close

Spec == Init /\ [][Next]_vars

ErrorInputs ==
    {bad_request(m) : m \in Messages} \cup {forbidden(m) : m \in Messages}
    \cup {not_found(m) : m \in Messages} \cup {conflict(m) : m \in Messages}
    \cup {server_error(m) : m \in Messages}
    \cup {custom(m, s) : m \in Messages, s \in Statuses}

ErrNext ==
    \/ \E e \in ErrorInputs : NewError(e)
    \/ SetOverride
    \/ Convert

SpecErr == Init /\ [][ErrNext]_vars

RespNext ==
    \/ \E kind \in Constructors : \E body \in Bodies : Construct(kind, body)
    \/ \E e \in RespErrors : ConstructError(e)
    \/ \E st \in Statuses : CallStatus(st)
    \/ \E c \in CorsInputs : CallApplyCors(c.origin, c.headers)
    \/ \E h \in HeaderInputs : CallHeader(h.key, h.value)

SpecResp == Init /\ [][RespNext]_vars

FormNext ==
    \/ \E d \in FormBodies : FormParse(d)
    \/ \E k \in FormKeys : FormGet(k)

SpecForm == Init /\ [][FormNext]_vars

(***************************************************************************)
(* JSON serialization: the ToJson impls and the derived to_json.           *)
(***************************************************************************)
MaxChildren == 2     \* children of a serialized composite
MaxEscLen == 2       \* length of a serialized string

DigitChars == <<"0", "1", "2", "3", "4", "5", "6", "7", "8", "9">>

\* i32::to_string
RECURSIVE to_string(_)
to_string(n) ==
    IF n < 0 THEN <<"-">> \o to_string(0 - n)
    ELSE IF n < 10 THEN <<DigitChars[n + 1]>>
    ELSE to_string(n \div 10) \o <<DigitChars[(n % 10) + 1]>>

\* str::parse::<i32>: an optional sign, then digits only
RECURSIVE ParseDigits(_, _)
ParseDigits(text, acc) ==
    IF text = <<>> THEN acc
    ELSE ParseDigits(Tail(text),
                     10 * acc + (CHOOSE d \in 0..9 : DigitChars[d + 1] = Head(text)))

ParseI32(text) ==
    LET digits == IF text # <<>> /\ Head(text) \in {"-", "+"} THEN Tail(text) ELSE text
    IN  IF digits = <<>> \/ ~(Range(digits) \subseteq JsonDigits) THEN None
        ELSE [None EXCEPT !.some = TRUE,
                          !.n = IF Head(text) = "-" THEN 0 - ParseDigits(digits, 0)
                                ELSE ParseDigits(digits, 0)]

\* to_json of a String, an i32 and a bool
ToJsonString(v) == <<"\"">> \o v \o <<"\"">>
ToJsonBool(b) == IF b = 1 THEN <<"t", "r", "u", "e">> ELSE <<"f", "a", "l", "s", "e">>
ToJson(child) ==
    CASE child.type = "string" -> ToJsonString(child.text)
      [] child.type = "i32" -> to_string(child.n)
      [] child.type = "bool" -> ToJsonBool(child.n)

\* the loop of Vec::to_json: every child followed by ','
RECURSIVE VecItems(_)
VecItems(entries) ==
    IF entries = <<>> THEN <<>>
    ELSE ToJson(Head(entries)) \o <<",">> \o VecItems(Tail(entries))

\* Vec::to_json: the last character goes unless the vector is empty
VecToJson(entries) ==
    LET output == <<"[">> \o VecItems(entries)
    IN  (IF entries # <<>> THEN SubSeq(output, 1, Len(output) - 1) ELSE output)
        \o <<"]">>

\* the loop of HashMap::to_json: "key":value, for every entry
RECURSIVE MapItems(_)
MapItems(entries) ==
    IF entries = <<>> THEN <<>>
    ELSE <<"\"", Head(entries).key, "\"", ":">> \o ToJson(Head(entries)) \o <<",">>
         \o MapItems(Tail(entries))

\* HashMap::to_json: the last character always goes
MapToJson(entries) ==
    LET output == <<"{">> \o MapItems(entries)
    IN  SubSeq(output, 1, Len(output) - 1) \o <<"}">>

\* the fields derive_to_json emits: "key" : value, for every field
RECURSIVE StructItems(_)
StructItems(entries) ==
    IF entries = <<>> THEN <<>>
    ELSE <<"\"", Head(entries).key, "\"", " ", ":", " ">> \o ToJson(Head(entries))
         \o <<",">> \o StructItems(Tail(entries))

\* the derived to_json: output.pop() whatever the fields are
StructToJson(entries) ==
    LET output == <<"{">> \o StructItems(entries)
    IN  SubSeq(output, 1, Len(output) - 1) \o <<"}">>

to_json(value) ==
    CASE value.kind = "vec" -> VecToJson(value.entries)
      [] value.kind = "map" -> MapToJson(value.entries)
      [] value.kind = "struct" -> StructToJson(value.entries)

\* the values serialized: strings, integers and booleans under the keys of a
\* composite
EscAlphabet == {"a", "\"", "\\", "\n", "\t"}
StringValues ==
    {[key |-> "k", type |-> "string", text |-> v, n |-> 0] :
        v \in StringsUpTo(EscAlphabet, MaxEscLen)}
IntValues == {[key |-> "k", type |-> "i32", text |-> <<>>, n |-> n] : n \in {0, 5, 12, -1}}
ChildKeys == {"k", "n", "m"}
Children ==
    {[key |-> key, type |-> "string", text |-> <<"a">>, n |-> 0] : key \in ChildKeys}
    \cup {[key |-> key, type |-> "i32", text |-> <<>>, n |-> 5] : key \in ChildKeys}
    \cup {[key |-> key, type |-> "bool", text |-> <<>>, n |-> 1] : key \in ChildKeys}
Entries ==
    {e \in UNION {[1..len -> Children] : len \in 0..MaxChildren} :
        \A i, j \in 1..Len(e) : i # j => e[i].key # e[j].key}
Kinds == {"vec", "map", "struct"}

\* to_json of a composite
Serialize(kind, entries) ==
    /\ json = NoText
    /\ original' = [kind |-> kind, entries |-> entries]
    /\ json' = to_json([kind |-> kind, entries |-> entries])
    /\ UNCHANGED <<routeVars, srvVars, errVars, respVars, formVars, frameVars,
                   document, retrieved>>

\* JsonObject::string and JsonObject::i32
FromObject(doc, key, type) ==
    IF key \notin DOMAIN doc.keys THEN None
    ELSE IF type = "string"
    THEN [None EXCEPT !.some = TRUE, !.text = doc.keys[key].contents]
    ELSE ParseI32(doc.keys[key].contents)

\* JsonArray::get, then JsonChild::string and JsonChild::i32
FromArray(doc, index, type) ==
    IF index > Len(doc.values) THEN RetrievedPanic
    ELSE IF type = "string"
    THEN [None EXCEPT !.some = TRUE, !.text = doc.values[index].contents]
    ELSE ParseI32(doc.values[index].contents)

\* to_json of a map or a vector that holds v, from_string of its text, then
\* the accessor of v's type
RoundTrip(kind, v) ==
    /\ json = NoText
    /\ original' = [kind |-> kind, entries |-> <<v>>]
    /\ json' = to_json([kind |-> kind, entries |-> <<v>>])
    /\ document' = IF kind = "map" THEN JsonObjectFromString(json')
                   ELSE JsonArrayFromString(json')
    /\ retrieved' = IF ~document'.ok THEN RetrievedPanic
                    ELSE IF kind = "map" THEN FromObject(document', <<v.key>>, v.type)
                    ELSE FromArray(document', 1, v.type)
    /\ UNCHANGED <<routeVars, srvVars, errVars, respVars, formVars, frameVars>>

\* JsonObject::object on the object parsed
GetObject(key) ==
    /\ document.ok
    /\ document.kind = "object"
    /\ original = NoValue
    /\ retrieved = NoRetrieved
    /\ retrieved' = object(document, key)
    /\ UNCHANGED <<routeVars, srvVars, errVars, respVars, formVars, frameVars,
                   json, document, original>>

JsonNext ==
    \/ \E text \in ObjectTexts : ParseObject(text)
    \/ \E text \in ArrayTexts : ParseArray(text)
    \/ \E text \in NestedObjectTexts \cup PrimitiveObjectTexts : ParseObject(text)
    \/ \E text \in InnerObjectTexts : ParseObject(text)
    \/ \E key \in {<<"k">>, <<"n">>} : GetObject(key)
    \/ \E kind \in Kinds, entries \in Entries : Serialize(kind, entries)
    \/ \E kind \in {"map", "vec"}, v \in StringValues \cup IntValues : RoundTrip(kind, v)
    \/ \E text \in NestedArrayTexts \cup PrimitiveArrayTexts : ParseArray(text)

SpecJson == Init /\ [][JsonNext]_vars

FrameNext ==
    \/ \E w \in Wires : ClientWrites(w)
    \/ FrameWire

SpecFrame == Init /\ [][FrameNext]_vars

(***************************************************************************)
(* Properties of the route table.                                          *)
(***************************************************************************)
ConcreteMethods == {"Get", "Post", "Put", "Patch", "Delete"}

RouteSet(storage) == {AllRoutes(storage)[i] : i \in 1..RouteCount(storage)}

\* the routes registered as (M, P), and the routes of the wildcard bucket with path P
ExactRoutes(storage, m, p) ==
    {r \in RouteSet(storage) : r.request_type = m /\ r.path = p}
WildcardRoutes(storage, p) ==
    {r \in RouteSet(storage) : BucketOf(r.request_type) = "Any" /\ r.path = p}

Reorderings(rs) ==
    {[i \in 1..Len(rs) |-> rs[f[i]]] :
        f \in {g \in [1..Len(rs) -> 1..Len(rs)] :
                  \A i, j \in 1..Len(rs) : g[i] = g[j] => i = j}}

IsNormalized(p) == StartsWith(p, "/") /\ (EndsWith(p, "/") => p = <<"/">>)

\* C1: after registration and preparation, a lookup for (M, P) with M one of
\* Get, Post, Put, Patch, Delete returns a route registered as (M, P) if there
\* is one, else a route of the wildcard bucket with path P if there is one,
\* else "not found"
C1_LookupCorrect ==
    (lookup # NoLookup /\ lookup.request_type \in ConcreteMethods) =>
        LET exact == ExactRoutes(routes, lookup.request_type, lookup.path)
            wild == WildcardRoutes(routes, lookup.path)
        IN  IF exact # {} THEN lookup.found \in exact
            ELSE IF wild # {} THEN lookup.found \in wild
            ELSE lookup.found = NotFound

\* no two routes are registered for the same bucket and path
DistinctKeys(storage) ==
    \A b \in Buckets : \A i, j \in 1..Len(storage[b]) :
        storage[b][i].path = storage[b][j].path => i = j

\* C2: every registration order of the same routes (one route per method and
\* path) gives, after preparation, the same lookup result (the same handler,
\* or "not found")
C2_OrderIndependent ==
    (lookup # NoLookup /\ DistinctKeys(routes)) =>
        \A perm \in Reorderings(AllRoutes(routes)) :
            StorageHandler(StoragePrep(StorageAddAll(EmptyStorage, perm)),
                           lookup.request_type, lookup.path).handler
            = lookup.found.handler

\* C3: a request whose target is the stored path of a registered route, or that
\* path followed by one '/', resolves to that route, whether the route was
\* registered directly or through a module with a prefix
C3_RequestFindsRoute ==
    lookup # NoLookup =>
        \A r \in RouteSet(routes) :
            ( /\ lookup.target \in {r.path, Append(r.path, "/")}
              /\ \/ r.request_type = lookup.request_type
                 \/ BucketOf(r.request_type) = "Any" )
            => lookup.found.path = r.path

\* C4: every path stored in a Route and every path of a framed request starts
\* with '/' and does not end with '/' unless it is exactly "/"
C4_PathsNormalized ==
    /\ \A r \in RouteSet(routes) : IsNormalized(r.path)
    /\ lookup # NoLookup => IsNormalized(lookup.path)

\* C5: normalizing a normalized path changes nothing, at registration
\* (Route::new) and at request framing
C5_NormalizeIdempotent ==
    /\ \A r \in RouteSet(routes) : RouteNewPath(r.path) = r.path
    /\ lookup # NoLookup => FramePath(lookup.path) = lookup.path

(***************************************************************************)
(* Properties of the server loop.                                          *)
(***************************************************************************)
\* the response carries the three CORS headers, origin and headers as configured
HasCors(resp) ==
    /\ {"Access-Control-Allow-Origin", "Access-Control-Allow-Headers",
        "Access-Control-Allow-Methods"} \subseteq DOMAIN resp.headers
    /\ resp.headers["Access-Control-Allow-Origin"] = cors_origin
    /\ resp.headers["Access-Control-Allow-Headers"] = cors_headers

\* the wire buffer carries the three CORS header lines
WireHasCors(buffer) ==
    /\ HeaderLine("Access-Control-Allow-Origin", cors_origin) \in Range(buffer)
    /\ HeaderLine("Access-Control-Allow-Headers", cors_headers) \in Range(buffer)
    /\ HeaderLine("Access-Control-Allow-Methods", AllowMethods) \in Range(buffer)

\* C6: an OPTIONS request is answered directly with an empty-body response
\* carrying the CORS headers, whatever routes are registered: no route lookup,
\* no database connection, no treatment, no handler on that connection
C6_OptionsShortCircuit ==
    (cur # 0 /\ req.request_type = "Options") =>
        /\ Range(log) \cap {"lookup", "db", "treatment", "handler", "postfix"} = {}
        /\ matched = "none"
        /\ pc \in {"options_write", "close"}
        /\ response.data = <<>>
        /\ HasCors(response)
        /\ bytes = WireBytes(response)
        /\ WireHasCors(bytes)
        /\ wresult = "ok" => IsPrefix(sent, bytes)

\* C6 witness: an OPTIONS request for a path a registered wildcard route
\* serves has been answered in full
C6_Witness ==
    /\ pc = "close"
    /\ req.request_type = "Options"
    /\ WildcardRoutes(routes, req.path) # {}
    /\ wresult = "ok"
    /\ sent = bytes

\* C7: every response the dispatcher writes carries the three CORS headers,
\* origin and headers with the configured values, whatever the handler or
\* the postfix function set
C7_CorsOnEveryResponse ==
    pc \in {"options_write", "write", "close"} =>
        /\ HasCors(response)
        /\ bytes = WireBytes(response)
        /\ WireHasCors(bytes)

\* C7 witness: a handler and the postfix function both set the origin header,
\* CORS was configured, and the response has been written
C7_Witness ==
    /\ pc = "close"
    /\ wresult = "ok"
    /\ sent = bytes
    /\ matched \in Handlers
    /\ response.data = <<>>
    /\ "postfix" \in Range(log)
    /\ cors_origin # DefaultCorsOrigin

\* C8: the write phase of every response ends only when the socket has
\* accepted the whole buffer, in order, or a write returned an error
C8_NoPartialWriteLoss ==
    pc = "close" => (wresult = "err" \/ sent = bytes)

\* C9: while a connection is suspended at framing, database acquisition, in
\* its handler or in its write loop, the server can accept a waiting second
\* connection
C9_AcceptWhileSuspended ==
    (pc \in {"frame", "db", "handler", "write"} /\ backlog # <<>>) => ENABLED Accept

(***************************************************************************)
(* Properties of RouteError::to_response.                                  *)
(***************************************************************************)
\* the characters JSON allows after a backslash, and what they stand for
JsonEscapes == {"\"", "\\", "/", "b", "f", "n", "r", "t"}
JsonUnescape(c) ==
    CASE c = "n" -> "\n"
      [] c = "t" -> "\t"
      [] c = "r" -> "\r"
      [] OTHER -> c

\* reads a JSON string literal of text s whose opening quote precedes index i:
\* the decoded text and the index of the closing quote, or failure
RECURSIVE ScanJsonString(_, _, _)
ScanJsonString(s, i, acc) ==
    IF i > Len(s) THEN [ok |-> FALSE, end |-> 0, text |-> acc]
    ELSE IF s[i] = "\"" THEN [ok |-> TRUE, end |-> i, text |-> acc]
    ELSE IF s[i] = "\\"
    THEN (IF i + 1 <= Len(s) /\ s[i + 1] \in JsonEscapes
          THEN ScanJsonString(s, i + 2, Append(acc, JsonUnescape(s[i + 1])))
          ELSE [ok |-> FALSE, end |-> 0, text |-> acc])
    ELSE ScanJsonString(s, i + 1, Append(acc, s[i]))

\* body is the JSON object {"code":"<c>","message":"<m>"}
IsEnvelope(body, c, m) ==
    /\ Len(body) >= 7
    /\ SubSeq(body, 1, 5) = <<"{\n", "\t\"code\":\"", c, "\",\n", "\t\"message\":\"">>
    /\ LET lit == ScanJsonString(body, 6, <<>>)
       IN  /\ lit.ok
           /\ lit.text = m
           /\ SubSeq(body, lit.end + 1, Len(body)) = <<"\n}">>

\* C10: a RouteError with status S and message m whose override flag is not
\* set converts to a response with status S whose body is well-formed JSON
\* with code member the decimal code of S and message member m
C10_ErrorEnvelope ==
    (converted # NoResponse /\ ~error.override_output) =>
        /\ converted.status = error.status_code
        /\ IsEnvelope(converted.data, ToString(code(error.status_code)), error.message)

\* body is a JSON object {"code":"<c>","message":"<some text>"}
HasEnvelopeShape(body, c) ==
    /\ Len(body) >= 7
    /\ SubSeq(body, 1, 5) = <<"{\n", "\t\"code\":\"", c, "\",\n", "\t\"message\":\"">>
    /\ LET lit == ScanJsonString(body, 6, <<>>)
       IN  /\ lit.ok
           /\ SubSeq(body, lit.end + 1, Len(body)) = <<"\n}">>

JsonContentTypes ==
    {"application/json", "application/json; charset=utf-8",
     "Content-Type: application/json; charset=utf-8"}

\* C11: a RouteError whose override flag is set converts to a response whose
\* body is exactly the message, with the error's status and without the JSON
\* content type of the envelope
C11_OverrideVerbatim ==
    (converted # NoResponse /\ error.override_output) =>
        /\ converted.data = error.message
        /\ converted.status = error.status_code
        /\ converted.headers["Content-Type"] \notin JsonContentTypes

(***************************************************************************)
(* Properties of the error arms of the server loop.                        *)
(***************************************************************************)
\* C12: a request that matches no registered route and no wildcard route is
\* answered with status 404 and a body of the error-envelope shape with code
\* "404"
C12_UnmatchedEnvelope ==
    (pc \in {"write", "close"} /\ matched = "default" /\ "handler" \in Range(log)) =>
        /\ response.status = "NotFound"
        /\ HasEnvelopeShape(response.data, "404")

\* the connection in hand failed to acquire a database connection
DbFailed == "db_err" \in Range(log)

C13_OneResponse ==
    DbFailed =>
        /\ Range(log) \cap {"db", "treatment", "handler", "postfix"} = {}
        /\ pc \in {"write", "close"}
        /\ response.status = "InternalServerError"
        /\ IsEnvelope(response.data, "500", <<"Cannot connect to database.">>)
        /\ bytes = WireBytes(response)
        /\ IsPrefix(sent, bytes)
        /\ (pc = "close" /\ wresult = "ok") => sent = bytes

\* C13: when acquiring the database connection fails for a non-OPTIONS
\* request, neither the treatment nor the handler runs, the one response
\* written on the connection has status 500 and the error envelope, and the
\* loop then goes back to accepting
C13_DbFailureAnswered ==
    /\ []C13_OneResponse
    /\ [][(DbFailed /\ pc = "close" /\ pc' # pc) => (pc' = "accept" /\ cur' = 0)]_vars

\* C13 witness: the 500 response of a failed acquisition has been written in full
C13_Witness ==
    /\ DbFailed
    /\ pc = "close"
    /\ wresult = "ok"
    /\ sent = bytes
    /\ req.request_type = "Get"

(***************************************************************************)
(* Properties of the responses the application builds.                     *)
(***************************************************************************)
AutoKeys == {"Content-Length", "Content-Type", "Date", "Connection"}

\* every header() call made on the response named a key outside AutoKeys
OnlyOtherKeys ==
    \A i \in 1..Len(calls) : calls[i].op = "header" => calls[i].key \notin AutoKeys

\* C15: a response built by data, string, json, html or to_response, followed
\* by status(), apply_cors() and header() calls on other keys, carries
\* Content-Length equal to the byte count of its body, a Content-Type, a Date
\* and Connection: close
C15_AutoHeaders ==
    (built # NoResponse /\ OnlyOtherKeys) =>
        /\ AutoKeys \subseteq DOMAIN built.headers
        /\ built.headers["Content-Length"] = ToString(ByteLen(built.data))
        /\ built.headers["Date"] = DateNow
        /\ built.headers["Connection"] = "close"

\* C15 witness: a string response with a body, then a status, then a header
\* on another key
C15_Witness ==
    /\ Len(calls) = 3
    /\ calls[1].op = "string"
    /\ calls[2].op = "status"
    /\ calls[3] = [op |-> "header", key |-> "X-Post"]
    /\ Len(built.data) = 2

\* the header lines of HTTP/1.1: every line ended by CRLF
RECURSIVE CrlfHeaders(_, _)
CrlfHeaders(headers, i) ==
    IF i > Len(HeaderKeyOrder) THEN <<>>
    ELSE IF HeaderKeyOrder[i] \in DOMAIN headers
    THEN <<"\r\n", HeaderLine(HeaderKeyOrder[i], headers[HeaderKeyOrder[i]])>>
         \o CrlfHeaders(headers, i + 1)
    ELSE CrlfHeaders(headers, i + 1)

\* status line, the headers once each in ascending key order, a blank line,
\* the body
Http11Wire(resp) ==
    <<"HTTP/1.1 " \o http_string(resp.status)>>
    \o CrlfHeaders(resp.headers, 1)
    \o <<"\r\n\r\n">>
    \o resp.data

\* C16: the wire form of a response is the status line, every header once as
\* 'Key: Value' in ascending key order, each line ended by CRLF, a blank line,
\* then the body unchanged
C16_WireForm ==
    built # NoResponse => WireBytes(built) = Http11Wire(built)

\* the wire form with every bare LF between two lines read as CRLF
LfAsCrlf(buffer) == [i \in 1..Len(buffer) |-> IF buffer[i] = "\n" THEN "\r\n" ELSE buffer[i]]
C16_UpToLineEnds ==
    built # NoResponse =>
        LfAsCrlf(GetHeaderData(built)) \o built.data = Http11Wire(built)

(***************************************************************************)
(* Properties of form bodies.                                              *)
(***************************************************************************)
\* one pass over the text: '+' and every escape of the table decoded once,
\* what a decoding produced never decoded again
RECURSIVE DecodeOnce(_)
DecodeOnce(s) ==
    IF s = <<>> THEN <<>>
    ELSE IF \E i \in 1..Len(DecodeTable) : IsPrefix(DecodeTable[i].from, s)
    THEN LET i == CHOOSE j \in 1..Len(DecodeTable) : IsPrefix(DecodeTable[j].from, s)
         IN  <<DecodeTable[i].to>>
             \o DecodeOnce(SubSeq(s, Len(DecodeTable[i].from) + 1, Len(s)))
    ELSE <<Head(s)>> \o DecodeOnce(Tail(s))

\* C19: a form body is split on '&' and each pair on '='; retrieving a key
\* returns its value with '+' and the percent escapes decoded exactly once
\* ('%255B' gives '%5B'), and 'a=1&b=2' gives a -> '1', b -> '2'
C19_DecodedOnce ==
    got # NoGot =>
        /\ got.found = (got.key \in DOMAIN values)
        /\ got.found => got.value = DecodeOnce(values[got.key])
        /\ form = <<"a", "=", "1", "&", "b", "=", "2">> =>
              got.value = (IF got.key = <<"a">> THEN <<"1">> ELSE <<"2">>)

\* the values in which no decoded percent sign meets the characters after it
C19_NoEncodedPercent ==
    (got # NoGot /\ got.found
        /\ \A i \in 1..(Len(values[got.key]) - 2) :
              SubSeq(values[got.key], i, i + 2) # <<"%", "2", "5">>) =>
        got.value = DecodeOnce(values[got.key])

(***************************************************************************)
(* Properties of JSON parsing.                                             *)
(***************************************************************************)
\* the text has an escaped backslash
RECURSIVE HasEscapedBackslash(_)
HasEscapedBackslash(v) ==
    IF Len(v) < 2 THEN FALSE
    ELSE IF Head(v) = "\\" THEN v[2] = "\\" \/ HasEscapedBackslash(SubSeq(v, 3, Len(v)))
    ELSE HasEscapedBackslash(Tail(v))

\* the string value of the parsed text, read as JSON reads it: up to the
\* first quote preceded by an even number of backslashes
StringValue ==
    IF document.kind = "object"
    THEN ScanJsonString(json, Len(ObjectPrefix) + 1, <<>>)
    ELSE ScanJsonString(json, Len(ArrayPrefix) + 1, <<>>)
StringRaw ==
    IF document.kind = "object"
    THEN SubSeq(json, Len(ObjectPrefix) + 1, StringValue.end - 1)
    ELSE SubSeq(json, Len(ArrayPrefix) + 1, StringValue.end - 1)

\* C20: string extraction ends at the first quote preceded by an even number
\* of backslashes: the member after the string value is parsed as its own
\* member (the number 5), also after a value ending in an escaped backslash,
\* and a value with escaped quotes is the text with the quotes unescaped
C20_StringEndsAtUnescapedQuote ==
    json \in ObjectTexts \cup ArrayTexts =>
        /\ document.ok
        /\ document.kind = "object" =>
              /\ DOMAIN document.keys = {<<"k">>, <<"n">>}
              /\ document.keys[<<"n">>] = [content_type |-> "Number", contents |-> <<"5">>]
              /\ document.keys[<<"k">>].content_type = "String"
              /\ ~HasEscapedBackslash(StringRaw) =>
                    document.keys[<<"k">>].contents = StringValue.text
        /\ document.kind = "array" =>
              /\ Len(document.values) = 2
              /\ document.values[2] = [content_type |-> "Number", contents |-> <<"5">>]
              /\ document.values[1].content_type = "String"
              /\ ~HasEscapedBackslash(StringRaw) =>
                    document.values[1].contents = StringValue.text

\* the same for the values that do not end in an escaped backslash
C20_NoTrailingBackslash ==
    (json \in ObjectTexts \cup ArrayTexts /\ document.ok
        /\ (StringRaw = <<>> \/ StringRaw[Len(StringRaw)] # "\\")) =>
        C20_StringEndsAtUnescapedQuote

(***************************************************************************)
(* Properties of request framing.                                          *)
(***************************************************************************)
\* C14: whatever bytes a client sends (an empty stream, a request line
\* without a target, a header line without ': ', a body that is not UTF-8),
\* request framing completes with a request
C14_FramingNeverAborts ==
    framed # NoFramed => framed.outcome = "ok"

\* framing completes when the stream has a request line with a target, only
\* header lines with ': ', and no body to read
C14_WellFormedNoBody ==
    (framed # NoFramed
        /\ (\E rl \in RequestLines : Len(rl) > 1 /\ IsPrefix(rl, wire))
        /\ <<"X-Bad">> \notin Range(Lines(wire))
        /\ (\E i \in 2..Len(wire) : wire[i - 1] = "\r\n" /\ wire[i] = "\r\n")
        /\ "Content-Length" \notin Range(wire)) =>
        framed.outcome = "ok" /\ framed.request.body = NoBody

\* str::trim_start
RECURSIVE TrimStart(_)
TrimStart(data) ==
    IF data # <<>> /\ Head(data) = " " THEN TrimStart(Tail(data)) ELSE data

\* the kind of body the content type t and the body bytes call for
KindFor(t, data) ==
    CASE t \in {TYPE_JSON, TYPE_LD_JSON} ->
            IF TrimStart(data) # <<>> /\ Head(TrimStart(data)) = "["
            THEN "JsonArray" ELSE "JsonObject"
      [] t = TYPE_URL_ENCODED -> "UrlEncoded"
      [] t = TYPE_PLAIN_TEXT -> "PlainText"
      [] OTHER -> "Binary"

\* the headers of the framed request
FramedHeaders == framed.request.headers
HasContentLength == <<"content-length">> \in DOMAIN FramedHeaders
HasContentType == <<"content-type">> \in DOMAIN FramedHeaders

\* C17: with a content-length header, the body is JsonArray or JsonObject for
\* application/json and application/ld+json (JsonArray when the trimmed body
\* starts with '['), UrlEncoded for application/x-www-form-urlencoded,
\* PlainText for text/plain, Binary with the raw bytes for every other or
\* absent content type; without a content-length header the body is None
C17_BodyClassification ==
    framed.outcome = "ok" =>
        IF ~HasContentLength THEN framed.request.body = NoBody
        ELSE IF ~HasContentType THEN framed.request.body.kind = "Binary"
        ELSE Len(FramedHeaders[<<"content-type">>]) = 1 =>
                framed.request.body.kind
                = KindFor(FramedHeaders[<<"content-type">>], framed.request.body.data)

\* the same for the bodies that do not start with a space
C17_Untrimmed ==
    (framed.outcome = "ok" /\ framed.request.body.data # <<>>
        /\ Head(framed.request.body.data) # " ") =>
        C17_BodyClassification

\* C18: a ';'-delimited parameter suffix of the content-type value is
\* stripped before classification: 't', 't; q' and 't;q' classify the body
\* alike
C18_ParametersStripped ==
    (framed.outcome = "ok" /\ HasContentLength /\ HasContentType) =>
        framed.request.body
        = type_from_mime(<<Head(FramedHeaders[<<"content-type">>])>>,
                         framed.request.body.data)

\* the same for the values 't' and 't; q'
C18_SpaceAfterSemicolon ==
    (framed.outcome = "ok" /\ HasContentLength /\ HasContentType
        /\ FramedHeaders[<<"content-type">>] \notin
              {t \o <<";", "charset=utf-8">> : t \in MediaTypes}) =>
        C18_ParametersStripped

(***************************************************************************)
(* Properties of the phases of a served connection.                        *)
(***************************************************************************)
\* the number of times phase occurs in the log
Count(phases, phase) == Cardinality({i \in 1..Len(phases) : phases[i] = phase})

\* C25: with a postfix function installed, every response is passed through
\* it exactly once before it is written: handler responses, handler errors,
\* treatment errors, database errors and OPTIONS preflight responses
C25_PostfixOnEveryResponse ==
    (postfix # "none" /\ pc \in {"options_write", "write", "close"}) =>
        /\ Count(log, "postfix") = 1
        /\ "X-Post" \in DOMAIN response.headers

\* the same for the responses of a handler
C25_PostfixOnHandlerResponses ==
    (postfix # "none" /\ pc \in {"write", "close"} /\ "handler" \in Range(log)) =>
        /\ Count(log, "postfix") = 1
        /\ "X-Post" \in DOMAIN response.headers

\* the paths of the bucket ascend
IsSortedByPath(rs) ==
    \A i \in 1..(Len(rs) - 1) : StrCmp(rs[i].path, rs[i + 1].path) <= 0

\* C26: at every route lookup of the accept loop each of the six buckets is
\* sorted in ascending order of path
C26_BucketsSortedAtLookup ==
    lookup # NoLookup => \A b \in Buckets : IsSortedByPath(routes[b])

\* the same for the buckets other than Patch
C26_OtherBucketsSorted ==
    lookup # NoLookup => \A b \in Buckets \ {"Patch"} : IsSortedByPath(routes[b])

\* C27: every iteration of the write loop either ends the loop or strictly
\* shortens the unsent remainder, whatever the write returns (an error, or a
\* count between 0 and the length of the remainder)
C27_WriteLoopProgress ==
    [][(pc = "write" /\ <<sent, write_bytes, wresult, log>>' # <<sent, write_bytes, wresult, log>>)
          => (pc' = "close" \/ Len(write_bytes') < Len(write_bytes))]_vars

\* the same for the writes that accept at least one byte
C27_ProgressUnlessZero ==
    [][(pc = "write" /\ sent' # sent)
          => (pc' = "close" \/ Len(write_bytes') < Len(write_bytes))]_vars

\* the place of a phase in the order of the loop body
PhaseRank(phase) ==
    CASE phase = "frame" -> 1
      [] phase = "lookup" -> 2
      [] phase \in {"db", "db_err"} -> 3
      [] phase \in {"treatment", "treatment_err"} -> 4
      [] phase = "handler" -> 5
      [] phase = "postfix" -> 6
      [] phase = "cors" -> 7
      [] phase = "write" -> 8

\* C30: on a non-OPTIONS connection the phases occur in the order frame,
\* lookup, database, treatment, handler, CORS, write; at most one handler is
\* invoked, only after the database connection was acquired and the treatment
\* succeeded, and the write phase starts only after the handler and the CORS
\* headers
C30_PhaseOrder ==
    (cur # 0 /\ req # NoRequest /\ req.request_type # "Options") =>
        /\ \A i \in 1..(Len(log) - 1) : PhaseRank(log[i]) < PhaseRank(log[i + 1])
        /\ SubSeq(log, 1, 2) = <<"frame", "lookup">>
        /\ Count(log, "handler") <= 1
        /\ "handler" \in Range(log) =>
              {"db", "treatment"} \subseteq Range(log) /\ matched # "none"
        /\ "treatment" \in Range(log) \/ "treatment_err" \in Range(log) =>
              "db" \in Range(log)
        /\ "write" \in Range(log) =>
              /\ "cors" \in Range(log)
              /\ \/ "handler" \in Range(log)
                 \/ "db_err" \in Range(log)
                 \/ "treatment_err" \in Range(log)
        /\ pc \in {"write", "close"} <=> "cors" \in Range(log)

\* C30 witness: a connection went through every phase and its handler's
\* response was written in full
C30_Witness ==
    /\ pc = "close"
    /\ log = <<"frame", "lookup", "db", "treatment", "handler", "cors", "write">>
    /\ matched \in Handlers
    /\ wresult = "ok"
    /\ sent = bytes

(***************************************************************************)
(* Properties of nested values and primitives in JSON texts.               *)
(***************************************************************************)
\* the nested value N of a text of NestedObjectTexts or NestedArrayTexts
NestedOf(text) ==
    IF text \in NestedObjectTexts
    THEN SubSeq(text, Len(KeyPrefix) + 1, Len(text) - Len(MemberSuffix))
    ELSE SubSeq(text, 2, Len(text) - Len(ValueSuffix))

\* contents is the text N of the nested value, up to its closing delimiter
\* (which the object loop pops and the array loop keeps)
IsNestedText(child, N) ==
    /\ child.content_type = (IF Head(N) = "{" THEN "Object" ELSE "Array")
    /\ child.contents \in {N, SubSeq(N, 1, Len(N) - 1)}

FollowingNumber == [content_type |-> "Number", contents |-> <<"5">>]

\* C21: a '{', '}', '[' or ']' inside a string value of a nested object or
\* array does not change the depth: extraction stops at the delimiter that
\* closes the nested value, and the member that follows is parsed under its
\* own key
C21_DepthOutsideStrings ==
    json \in NestedObjectTexts \cup NestedArrayTexts =>
        /\ document.ok
        /\ document.kind = "object" =>
              /\ DOMAIN document.keys = {<<"k">>, <<"n">>}
              /\ IsNestedText(document.keys[<<"k">>], NestedOf(json))
              /\ document.keys[<<"n">>] = FollowingNumber
        /\ document.kind = "array" =>
              /\ Len(document.values) = 2
              /\ IsNestedText(document.values[1], NestedOf(json))
              /\ document.values[2] = FollowingNumber

\* the same for the nested values whose string holds no delimiter
C21_NoDelimiterInString ==
    (json \in NestedObjectTexts \cup NestedArrayTexts
        /\ Range(NestedOf(json)) \cap {"{", "}", "[", "]"}
           \subseteq {Head(NestedOf(json)), NestedOf(json)[Len(NestedOf(json))]}
        /\ Cardinality({i \in 1..Len(NestedOf(json)) :
                          NestedOf(json)[i] \in {"{", "}", "[", "]"}}) = 2) =>
        C21_DepthOutsideStrings

\* the separators of a serialized composite: the commas outside its children
\* (no child of Children holds a comma)
Separators(text) == Cardinality({i \in 1..Len(text) : text[i] = ","})

Opening(kind) == IF kind = "vec" THEN "[" ELSE "{"
Closing(kind) == IF kind = "vec" THEN "]" ELSE "}"

\* C23: the text of a serialized Vec, HashMap or derived struct starts with
\* the opening delimiter, ends with the matching closing delimiter and holds
\* n - 1 separators for n children, for every n including 0: an empty map or
\* field-less struct gives {} and an empty sequence gives []
C23_CompositeDelimiters ==
    (original.kind \in Kinds /\ document = NoDocument) =>
        /\ Len(json) >= 2
        /\ Head(json) = Opening(original.kind)
        /\ json[Len(json)] = Closing(original.kind)
        /\ Separators(json) = (IF original.entries = <<>> THEN 0
                               ELSE Len(original.entries) - 1)
        /\ original.entries = <<>> =>
              json = <<Opening(original.kind), Closing(original.kind)>>

\* the same for the composites that have a child, and for every sequence
C23_NonEmptyOrSequence ==
    (original.kind \in Kinds /\ document = NoDocument
        /\ (original.entries # <<>> \/ original.kind = "vec")) =>
        C23_CompositeDelimiters

\* C22: the value retrieved from the parsed text of to_json(v) with the
\* accessor of v's type equals v
C22_RoundTrip ==
    (original.kind \in {"map", "vec"} /\ document # NoDocument) =>
        /\ retrieved.kind = "value"
        /\ retrieved.some
        /\ retrieved.text = original.entries[1].text
        /\ retrieved.n = original.entries[1].n

\* the round trip of the strings without a quote or a backslash and of the
\* integers that are not negative
C22_PlainValues ==
    (original.kind \in {"map", "vec"} /\ document # NoDocument
        /\ Range(original.entries[1].text) \cap {"\\", "\""} = {}
        /\ original.entries[1].n >= 0) =>
        C22_RoundTrip

\* the nested object N of a text of InnerObjectTexts
InnerOf(text) == SubSeq(text, Len(KeyPrefix) + 1, Len(text) - Len(MemberSuffix))

\* C29: retrieving k as an object yields a JsonObject with the keys and the
\* raw values that JsonObject::from_string gives for the nested text N
\* itself, whatever the last member of N is
C29_ObjectAgreesWithDirectParse ==
    (json \in InnerObjectTexts /\ <<"k">> \in DOMAIN document.keys
        /\ retrieved # NoRetrieved /\ retrieved # None) =>
        /\ retrieved.kind = "value"
        /\ retrieved.some
        /\ retrieved.object = JsonObjectFromString(InnerOf(json))

\* the same for the nested objects whose last member is a string
C29_StringLastMember ==
    (json \in InnerObjectTexts /\ InnerOf(json)[Len(InnerOf(json)) - 1] = "\"") =>
        C29_ObjectAgreesWithDirectParse

\* the primitive token of a text of PrimitiveObjectTexts or PrimitiveArrayTexts
PrimitiveOf(text) ==
    IF text \in PrimitiveObjectTexts
    THEN SubSeq(text, Len(KeyPrefix) + 1, Len(text) - Len(MemberSuffix))
    ELSE SubSeq(text, 2, Len(text) - Len(ValueSuffix))

\* C24: an object or array holding a bare primitive token (a number, a
\* negative number, true, false, null) is parsed without aborting, and the
\* member holds the token as written
C24_PrimitivesAccepted ==
    json \in PrimitiveObjectTexts \cup PrimitiveArrayTexts =>
        /\ document.ok
        /\ document.kind = "object" =>
              /\ DOMAIN document.keys = {<<"k">>, <<"n">>}
              /\ document.keys[<<"k">>].contents = PrimitiveOf(json)
        /\ document.kind = "array" =>
              /\ Len(document.values) = 2
              /\ document.values[1].contents = PrimitiveOf(json)

\* the same for the tokens that start with a digit, 't' or 'f'
C24_UnsignedAndBooleans ==
    (json \in PrimitiveObjectTexts \cup PrimitiveArrayTexts
        /\ Head(PrimitiveOf(json)) \notin {"-", "n"}) =>
        C24_PrimitivesAccepted

(***************************************************************************)
(* Properties of the body-read loop.                                       *)
(***************************************************************************)
\* the bytes of the stream after its header section
AfterHeaders(stream_bytes) ==
    SubSeq(stream_bytes, HeaderSection(stream_bytes) + 1, Len(stream_bytes))

\* the body length the content-length line of the stream declares
Declared(stream_bytes) ==
    IF <<"Content-Length", ": ", "2">> \in Range(Lines(stream_bytes)) THEN 2 ELSE 0

\* C28: when a content-length header declares n body bytes, framing ends even
\* if the stream ends after fewer than n bytes, and when it returns a request
\* with n bytes available the body holds exactly n bytes
C28_BodyReadTerminates ==
    (framed # NoFramed /\ "Content-Length" \in Range(wire)) =>
        /\ framed.outcome # "hang"
        /\ framed.outcome = "ok" =>
              Len(framed.request.body.data) = Declared(wire)

\* the same for the streams that hold the n bytes declared
C28_BodyAvailable ==
    (framed # NoFramed /\ Len(AfterHeaders(wire)) >= Declared(wire)) =>
        C28_BodyReadTerminates

====
